---- MODULE Spec2Model ----
(***************************************************************************)
(* The two orchestrators of amplifier-orchestration:                       *)
(* ForemanWorkerOrchestrator (amplifier_orchestrator_foreman_worker) and   *)
(* ObserverOrchestrator (amplifier_module_orchestrator_observers).         *)
(*                                                                         *)
(* One step of the model is one run of a coroutine between two awaits of   *)
(* the asyncio event loop: the code between two awaits is atomic, and at   *)
(* every await any other ready coroutine may run.                          *)
(*                                                                         *)
(*   Spec       the lifecycle of either orchestrator: overlapping          *)
(*              execute_user_message calls, shutdown calls, the worker     *)
(*              loops over an issue queue that stays empty, the observer   *)
(*              loops over watched files that do not change.               *)
(*   QueueSpec  a ForemanWorkerOrchestrator whose foreman delegate creates *)
(*              issues and whose worker delegates list, claim and finish   *)
(*              them.                                                      *)
(*   FairSpec   the lifecycle of an orchestrator whose coordinator session *)
(*              works, with the fairness the event loop gives every ready  *)
(*              coroutine.                                                 *)
(*   StopSpec   QueueSpec with a shutdown call that arrives while a worker *)
(*              loop is inside a cycle.                                    *)
(*   ReviewSpec an ObserverOrchestrator whose watched files are created,   *)
(*              rewritten, removed and made unreadable while the observer  *)
(*              loop runs; FairReviewSpec adds the event loop's fairness   *)
(*              and reviews that do not fail forever.                      *)
(***************************************************************************)
EXTENDS Integers, Sequences, FiniteSets, TLC

\* ------------------------------------------------------------------ bounds

\* execute_user_message calls issued over a run
MaxMessages == 2

\* issues the foreman delegate creates over a run
MaxTasks == 2

\* issues the observers' review delegates create over a run
MaxToolCalls == 3

\* ------------------------------------------------------------- environment

\* the coroutines that call execute_user_message; two of them may overlap
Callers == {"c1", "c2"}

\* values a delegate (AmplifierSession.execute) may return
Results == {"r1", "r2"}

NoSession == 0
NoTask == 0

\* worker_configs the orchestrator is constructed with: name, count, and
\* whether the mount plan yields a session with a context manager
LifecycleConfigs ==
  { << [name |-> "coding-worker", count |-> 1, ok |-> TRUE] >>,
    << [name |-> "coding-worker", count |-> 1, ok |-> TRUE],
       [name |-> "research-worker", count |-> 1, ok |-> FALSE] >>,
    << [name |-> "general-worker", count |-> 0, ok |-> TRUE] >> }

FairConfigs ==
  { << [name |-> "coding-worker", count |-> 1, ok |-> TRUE] >>,
    << [name |-> "research-worker", count |-> 1, ok |-> FALSE] >> }

QueueConfigs ==
  { << [name |-> "coding-worker", count |-> 2, ok |-> TRUE] >>,
    << [name |-> "coding-worker", count |-> 1, ok |-> TRUE],
       [name |-> "research-worker", count |-> 1, ok |-> TRUE] >> }

\* "Create at most 2 issues per review" in the observer's instructions and
\* in the review prompt
MaxIssuesPerReview == 2

\* observer_configs an ObserverOrchestrator is constructed with
ObserverConfigs == { << "reviewer" >> }

\* main_config: a mount plan that works, one without a context manager
MainConfigs == {"ok", "no_context"}

\* _get_work_state's None: nothing under the watched paths; the loop tests
\* `if current_state`, which an empty fingerprint fails as None does
NoState == << >>

\* the files that can exist under watch_paths, numbered in the order their
\* paths sort, and the st_mtime and st_size a stat() of one can return
Paths == {1, 2}
Mtimes == {1, 2}
Sizes == {1}

\* a file under the watched paths; stat() raises on one that is not readable
Files == [path : Paths, mtime : Mtimes, size : Sizes, readable : BOOLEAN]

\* foreman_config: a mount plan that works, one whose session has no context
\* manager mounted, one AmplifierSession() rejects
ForemanConfigs == {"ok", "no_context", "invalid"}

VARIABLES
  worker_configs,   \* self.worker_configs
  foreman_config,   \* self.foreman_config
  foreman_session,  \* self.foreman_session: NoSession or an index of sessions
  worker_tasks,     \* self.worker_tasks: the asyncio tasks of the worker loops
  shutdown_event,   \* self._shutdown_event.is_set()
  initialized,      \* self._initialized
  sessions,         \* the foreman AmplifierSessions constructed so far, with
                    \* the calls of __aenter__ and of __aexit__ on each
  cpc,              \* where each caller is in execute_user_message
  cmine,            \* the session a caller's _initialize constructed
  ctask,            \* a caller's execution_task
  clast,            \* how a caller's last call ended
  msgCount,         \* calls issued so far
  spc,              \* where the shutdown caller is in shutdown()
  gathered,         \* how many worker tasks the running gather() was given
  slast,            \* how the last shutdown call ended
  tasks,            \* the issue queue
  claims,           \* per issue: successful claims since it last became open
  orchestrator,     \* the class constructed: "foreman_worker" or "observers"
  observer_configs, \* ObserverOrchestrator: self.observer_configs (names)
  main_config,      \* ObserverOrchestrator: self.main_config
  main_session,     \* ObserverOrchestrator: self.main_session
  observer_loops,   \* every observer loop task created so far
  observer_tasks,   \* self.observer_tasks: indices of observer_loops
  work_state,       \* the files _get_work_state finds under watch_paths
  workflow,             \* MultiContextOrchestrator: the Workflow given to
                        \* execute_workflow
  max_context_history,  \* self.max_context_history
  contexts,             \* self.contexts: context_name -> ExecutionContext
  added,                \* per context: the messages add_message was given
                        \* since the last clear_history
  pool,                 \* self.sessions: profile -> AmplifierSession
  amplifier_sessions,   \* every AmplifierSession constructed by
                        \* _get_or_create_session, with its calls of
                        \* __aenter__
  wpc,                  \* execute_workflow: the phase it is executing
  runs                  \* per phase and task: where its execute_task is

orchVars == << worker_configs, foreman_config, foreman_session, worker_tasks,
               shutdown_event, initialized, sessions >>
callVars == << cpc, cmine, ctask, clast, msgCount >>
shutVars == << spc, gathered, slast >>
queueVars == << tasks, claims >>
obsVars == << observer_configs, main_config, main_session, observer_loops,
              observer_tasks, work_state >>
mcVars == << workflow, max_context_history, contexts, added, pool,
             amplifier_sessions, wpc, runs >>
vars == << orchVars, callVars, shutVars, queueVars, orchestrator, obsVars,
           mcVars >>

NoExec == [state |-> "none", session |-> NoSession, result |-> "none"]
NoOutcome == [kind |-> "none", value |-> "none"]
Raised == [kind |-> "raised", value |-> "none"]

\* ---------------------------------------------------------------- helpers

Finished(w) == w.pc \in {"done", "failed"}

\* a polling loop that tests done() without awaiting anything
SpinsInPoll(c) == FALSE

\* asyncio.sleep(0.1) in the polling loop suspends the caller, so a caller
\* that waits for its execution_task never occupies the event loop
SuspendedInPoll(c) == cpc[c] = "poll"

\* the event loop can run another coroutine
LoopIdle == \A c \in Callers : cpc[c] = "poll" => SuspendedInPoll(c)

\* _worker_loop: the category a worker asks the queue for
worker_category(name) ==
  IF name = "coding-worker" THEN "coding"
  ELSE IF name = "research-worker" THEN "research"
  ELSE "general"

RECURSIVE SpawnAll(_, _, _)
\* _start_workers: one task per configured instance, ids numbered by one
\* counter that runs across the configs
SpawnAll(cfgs, k, counter) ==
  IF k > Len(cfgs) THEN << >>
  ELSE [n \in 1..cfgs[k].count |->
          [name |-> cfgs[k].name, num |-> counter + n - 1, ok |-> cfgs[k].ok,
           pc |-> "init", phase |-> "none", target |-> NoTask]]
       \o SpawnAll(cfgs, k + 1, counter + cfgs[k].count)

\* _start_workers
StartWorkers == worker_tasks \o SpawnAll(worker_configs, 1, 0)

\* ------------------------------------------------------------------- init

InitCommon ==
  /\ foreman_session = NoSession
  /\ worker_tasks = << >>
  /\ shutdown_event = FALSE
  /\ initialized = FALSE
  /\ sessions = << >>
  /\ cpc = [c \in Callers |-> "idle"]
  /\ cmine = [c \in Callers |-> NoSession]
  /\ ctask = [c \in Callers |-> NoExec]
  /\ clast = [c \in Callers |-> NoOutcome]
  /\ msgCount = 0
  /\ spc = "idle"
  /\ gathered = 0
  /\ slast = "none"
  /\ tasks = << >>
  /\ claims = << >>

\* no MultiContextOrchestrator was constructed
NoWorkflow ==
  /\ workflow = << >>
  /\ max_context_history = 0
  /\ contexts = << >>
  /\ added = << >>
  /\ pool = << >>
  /\ amplifier_sessions = << >>
  /\ wpc = 0
  /\ runs = << >>

\* a ForemanWorkerOrchestrator was constructed: no observer state
NoObservers ==
  /\ orchestrator = "foreman_worker"
  /\ NoWorkflow
  /\ observer_configs = << >>
  /\ main_config = "none"
  /\ main_session = NoSession
  /\ observer_loops = << >>
  /\ observer_tasks = << >>
  /\ work_state = {}

\* ForemanWorkerOrchestrator.__init__
ForemanWorkerInit ==
  /\ worker_configs \in LifecycleConfigs
  /\ foreman_config \in ForemanConfigs
  /\ InitCommon
  /\ NoObservers

\* ObserverOrchestrator.__init__
ObserverInit ==
  /\ orchestrator = "observers"
  /\ NoWorkflow
  /\ observer_configs \in ObserverConfigs
  /\ main_config \in MainConfigs
  /\ main_session = NoSession
  /\ observer_loops = << >>
  /\ observer_tasks = << >>
  /\ work_state \in {{}, {[path |-> 1, mtime |-> 1, size |-> 1,
                            readable |-> TRUE]}}
  /\ worker_configs = << >>
  /\ foreman_config = "none"
  /\ InitCommon

Init == ForemanWorkerInit \/ ObserverInit

\* ------------------------------------------------- execute_user_message

\* `if not self._initialized`
NeedsInitialize == ~initialized

\* execute_user_message up to its first await: either the start of
\* _initialize (construct the session, await __aenter__) or, when already
\* initialized, the creation of execution_task
StartExecution(c) ==
  IF foreman_session = NoSession
  THEN /\ cpc' = [cpc EXCEPT ![c] = "idle"]
       /\ clast' = [clast EXCEPT ![c] = Raised]
       /\ UNCHANGED ctask
  ELSE /\ cpc' = [cpc EXCEPT ![c] = "poll"]
       /\ ctask' = [ctask EXCEPT ![c] = [state |-> "running",
                                         session |-> foreman_session,
                                         result |-> "none"]]
       /\ UNCHANGED clast

CallStart(c) ==
  /\ LoopIdle
  /\ cpc[c] = "idle"
  /\ msgCount < MaxMessages
  /\ msgCount' = msgCount + 1
  /\ IF NeedsInitialize
     THEN IF foreman_config = "invalid"
          THEN \* AmplifierSession(...) raises; nothing was assigned
               /\ clast' = [clast EXCEPT ![c] = Raised]
               /\ UNCHANGED << cpc, cmine, ctask, orchVars >>
          ELSE /\ sessions' = Append(sessions, [entered |-> 1, exited |-> 0])
               /\ foreman_session' = Len(sessions) + 1
               /\ cmine' = [cmine EXCEPT ![c] = Len(sessions) + 1]
               /\ cpc' = [cpc EXCEPT ![c] = "aenter"]
               /\ UNCHANGED << ctask, clast, worker_configs, foreman_config,
                               worker_tasks, shutdown_event, initialized >>
     ELSE /\ StartExecution(c)
          /\ UNCHANGED << cmine, orchVars >>
  /\ UNCHANGED << shutVars, queueVars >>

\* an _initialize that goes on without a context manager
InitEnteredIgnoresContext(c) ==
  /\ LoopIdle
  /\ cpc[c] = "aenter"
  /\ cpc' = [cpc EXCEPT ![c] = "add_message"]
  /\ UNCHANGED << orchVars, cmine, ctask, clast, msgCount, shutVars,
                  queueVars >>

\* _initialize: __aenter__ of the session this call constructed returns; the
\* context manager is looked up on self.foreman_session
InitEntered(c) ==
  /\ LoopIdle
  /\ cpc[c] = "aenter"
  /\ IF foreman_config = "no_context"
     THEN /\ cpc' = [cpc EXCEPT ![c] = "idle"]
          /\ clast' = [clast EXCEPT ![c] = Raised]
     ELSE /\ cpc' = [cpc EXCEPT ![c] = "add_message"]
          /\ UNCHANGED clast
  /\ UNCHANGED << orchVars, cmine, ctask, msgCount, shutVars, queueVars >>

\* _initialize: context.add_message returns, the workers are started, the
\* flag is set; back in execute_user_message the execution_task is created
InitFinish(c) ==
  /\ LoopIdle
  /\ cpc[c] = "add_message"
  /\ worker_tasks' = StartWorkers
  /\ initialized' = TRUE
  /\ StartExecution(c)
  /\ UNCHANGED << worker_configs, foreman_config, foreman_session,
                  shutdown_event, sessions, cmine, msgCount, shutVars,
                  queueVars >>

\* the foreman delegate returns a value
ExecReturns(c) ==
  /\ LoopIdle
  /\ ctask[c].state = "running"
  /\ \E r \in Results : ctask' = [ctask EXCEPT ![c].state = "done",
                                               ![c].result = r]
  /\ UNCHANGED << orchVars, cpc, cmine, clast, msgCount, shutVars, queueVars >>

\* the foreman delegate raises
ExecFails(c) ==
  /\ LoopIdle
  /\ ctask[c].state = "running"
  /\ ctask' = [ctask EXCEPT ![c].state = "failed"]
  /\ UNCHANGED << orchVars, cpc, cmine, clast, msgCount, shutVars, queueVars >>

\* the task kept in a field of the orchestrator that a concurrent call
\* overwrites: the result read is the one of the task started last
ResponseOfSharedTask(c) ==
  IF \E d \in Callers \ {c} : ctask[d].state = "done"
  THEN ctask[CHOOSE d \in Callers \ {c} : ctask[d].state = "done"].result
  ELSE ctask[c].result

\* `response = execution_task.result(); return response`
Response(c) == ctask[c].result

\* a handler of the delegate's exception that marks the orchestrator for a
\* new initialization
PollDoneTearsDown(c) ==
  /\ cpc[c] = "poll"
  /\ ctask[c].state \in {"done", "failed"}
  /\ cpc' = [cpc EXCEPT ![c] = "idle"]
  /\ clast' = [clast EXCEPT ![c] =
       IF ctask[c].state = "done"
       THEN [kind |-> "returned", value |-> Response(c)]
       ELSE Raised]
  /\ ctask' = [ctask EXCEPT ![c] = NoExec]
  /\ initialized' = (initialized /\ ctask[c].state = "done")
  /\ UNCHANGED << worker_configs, foreman_config, foreman_session,
                  worker_tasks, shutdown_event, sessions, cmine, msgCount,
                  shutVars, queueVars >>

\* the polling loop sees execution_task.done()
PollDone(c) ==
  /\ cpc[c] = "poll"
  /\ ctask[c].state \in {"done", "failed"}
  /\ cpc' = [cpc EXCEPT ![c] = "idle"]
  /\ clast' = [clast EXCEPT ![c] =
       IF ctask[c].state = "done"
       THEN [kind |-> "returned", value |-> Response(c)]
       ELSE Raised]
  /\ ctask' = [ctask EXCEPT ![c] = NoExec]
  /\ UNCHANGED << orchVars, cmine, msgCount, shutVars, queueVars >>

\* ---------------------------------------------------------------- shutdown

\* shutdown once the workers were awaited: the foreman session is closed
CloseForeman ==
  IF foreman_session # NoSession
  THEN /\ sessions' = [sessions EXCEPT ![foreman_session].exited = @ + 1]
       /\ spc' = "aexit"
       /\ UNCHANGED << initialized, slast >>
  ELSE /\ initialized' = FALSE
       /\ spc' = "idle"
       /\ slast' = "closed"
       /\ UNCHANGED sessions

ShutdownCall ==
  /\ LoopIdle
  /\ spc = "idle"
  /\ IF ~initialized
     THEN /\ slast' = "noop"
          /\ UNCHANGED << orchVars, spc, gathered >>
     ELSE /\ shutdown_event' = TRUE
          /\ IF worker_tasks # << >>
             THEN /\ spc' = "gather"
                  /\ gathered' = Len(worker_tasks)
                  /\ UNCHANGED << sessions, initialized, slast >>
             ELSE /\ CloseForeman
                  /\ UNCHANGED gathered
          /\ UNCHANGED << worker_configs, foreman_config, foreman_session,
                          worker_tasks >>
  /\ UNCHANGED << callVars, queueVars >>

\* a gather without return_exceptions raises the exception of the first
\* task that failed
GatherPropagates == \E i \in 1..gathered : worker_tasks[i].pc = "failed"

\* gather(..., return_exceptions=True): the exception of a task is an entry
\* of the result list, never raised
GatherRaises == FALSE

\* asyncio.gather(*self.worker_tasks, return_exceptions=True) returns
ShutdownGathered ==
  /\ LoopIdle
  /\ spc = "gather"
  /\ IF GatherRaises
     THEN /\ spc' = "idle"
          /\ slast' = "raised"
          /\ UNCHANGED << sessions, initialized >>
     ELSE /\ \A i \in 1..gathered : Finished(worker_tasks[i])
          /\ CloseForeman
  /\ UNCHANGED << worker_configs, foreman_config, foreman_session,
                  worker_tasks, shutdown_event, gathered, callVars,
                  queueVars >>

\* foreman_session.__aexit__ returns
ShutdownClosed ==
  /\ LoopIdle
  /\ spc = "aexit"
  /\ initialized' = FALSE
  /\ spc' = "idle"
  /\ slast' = "closed"
  /\ UNCHANGED << worker_configs, foreman_config, foreman_session,
                  worker_tasks, shutdown_event, sessions, gathered, callVars,
                  queueVars >>

\* ------------------------------------------------------------- issue queue

Statuses == {"open", "in_progress", "pending_user_input", "blocked", "closed"}
Categories == {"coding", "research"}
NoActor == << >>

\* `{worker_config.name}-{worker_id_counter}`
WorkerId(w) == << w.name, w.num >>

\* the queue's list operation: the issues with a status and a category
ListIssues(status, category) ==
  { t \in 1..Len(tasks) :
      tasks[t].status = status /\ tasks[t].category = category }

\* create: a new open, unassigned issue
NewIssue(category) ==
  [category |-> category, status |-> "open", assignee |-> NoActor,
   notes |-> "none", info |-> "none"]

\* claim: open and unassigned -> in_progress, held by the actor
CanClaim(t) == tasks[t].status = "open" /\ tasks[t].assignee = NoActor
Claimed(t, actor) ==
  [tasks[t] EXCEPT !.status = "in_progress", !.assignee = actor]

\* the transitions open to the actor that holds an in_progress issue
HeldBy(t, actor) ==
  tasks[t].status = "in_progress" /\ tasks[t].assignee = actor

Released(t) == [tasks[t] EXCEPT !.status = "open", !.assignee = NoActor]
AwaitingInput(t, reason) ==
  [tasks[t] EXCEPT !.status = "pending_user_input", !.notes = reason]
Blocked(t, reason) == [tasks[t] EXCEPT !.status = "blocked", !.notes = reason]
Completed(t) == [tasks[t] EXCEPT !.status = "closed", !.assignee = NoActor]

\* unblock: pending_user_input or blocked -> open, the info recorded, the
\* blocking notes cleared
\* an unblock that takes any issue that is not closed
CanUnblockNotClosed(t) == tasks[t].status # "closed"

\* an unblock that takes any issue that is not open
CanUnblockNotOpen(t) == tasks[t].status # "open"

CanUnblock(t) == tasks[t].status \in {"pending_user_input", "blocked"}

\* an unblock that only sets the status back
UnblockedStatusOnly(t, info) == [tasks[t] EXCEPT !.status = "open"]

Unblocked(t, info) ==
  [tasks[t] EXCEPT !.status = "open", !.notes = "none", !.info = info]

\* administrative close of any issue that is not closed
CanClose(t) == tasks[t].status # "closed"
Closed(t) == [tasks[t] EXCEPT !.status = "closed", !.assignee = NoActor]

\* an issue that becomes open starts a new round of claim attempts
Reopen(t) == [claims EXCEPT ![t] = 0]

\* ------------------------------------------------ the worker's delegate

\* a listing that leaves the category out of the filter
WorkerListingAnyCategory(w) ==
  { t \in 1..Len(tasks) : tasks[t].status = "open" }

\* step 1 of the worker prompt: list status='open' with the worker's category
WorkerListing(w) == ListIssues("open", worker_category(w.name))

\* the delegate picks one of the issues its listing returned
ExecPick(i) ==
  /\ LoopIdle
  /\ worker_tasks[i].pc = "execute"
  /\ worker_tasks[i].phase = "list"
  /\ \E t \in WorkerListing(worker_tasks[i]) :
       worker_tasks' = [worker_tasks EXCEPT ![i].phase = "claim",
                                            ![i].target = t]
  /\ UNCHANGED << worker_configs, foreman_config, foreman_session,
                  shutdown_event, initialized, sessions, callVars, shutVars,
                  queueVars >>

\* an update to in_progress that does not go through the claim operation
ClaimForced(t) == tasks[t].status # "closed"

\* step 2 of the worker prompt: operation='claim' with the worker's id as
\* assignee; the queue's answer is TRUE (claimed) or FALSE (ConflictError)
ClaimSucceeds(t) == CanClaim(t)

ExecClaim(i) ==
  LET w == worker_tasks[i]
      t == w.target
  IN /\ LoopIdle
     /\ w.pc = "execute"
     /\ w.phase = "claim"
     /\ IF ClaimSucceeds(t)
        THEN /\ tasks' = [tasks EXCEPT ![t] = Claimed(t, WorkerId(w))]
             /\ claims' = [claims EXCEPT ![t] = @ + 1]
             /\ worker_tasks' = [worker_tasks EXCEPT ![i].phase = "work"]
        ELSE /\ worker_tasks' = [worker_tasks EXCEPT ![i].phase = "conflict"]
             /\ UNCHANGED << tasks, claims >>
     /\ UNCHANGED << worker_configs, foreman_config, foreman_session,
                     shutdown_event, initialized, sessions, callVars,
                     shutVars >>

\* after a ConflictError the delegate lists again, or gives up and answers
ExecAfterConflict(i) ==
  /\ LoopIdle
  /\ worker_tasks[i].pc = "execute"
  /\ worker_tasks[i].phase = "conflict"
  /\ \/ worker_tasks' = [worker_tasks EXCEPT ![i].phase = "list",
                                             ![i].target = NoTask]
     \/ worker_tasks' = [worker_tasks EXCEPT ![i].pc = "sleep",
                                             ![i].phase = "none"]
  /\ UNCHANGED << worker_configs, foreman_config, foreman_session,
                  shutdown_event, initialized, sessions, callVars, shutVars,
                  queueVars >>

\* the operations the worker prompt names for a claimed issue, and the
\* delegate that answers without any of them
WorkerOps == {"complete", "request_user_input", "block", "release", "none"}

\* the worker's operation applied whoever holds the issue
AfterWorkerOpUnguarded(t, actor, op) ==
  IF op = "none" THEN tasks[t]
  ELSE IF op = "complete" THEN Completed(t)
  ELSE IF op = "request_user_input" THEN AwaitingInput(t, "reason")
  ELSE IF op = "block" THEN Blocked(t, "reason")
  ELSE Released(t)

\* the issue after the worker's operation; a rejected operation changes
\* nothing
AfterWorkerOp(t, actor, op) ==
  IF op = "none" \/ ~HeldBy(t, actor) THEN tasks[t]
  ELSE IF op = "complete" THEN Completed(t)
  ELSE IF op = "request_user_input" THEN AwaitingInput(t, "reason")
  ELSE IF op = "block" THEN Blocked(t, "reason")
  ELSE Released(t)

\* the delegate works on the claimed issue, applies at most one operation
\* and answers; the loop logs and sleeps
ExecFinish(i) ==
  LET w == worker_tasks[i]
      t == w.target
  IN /\ LoopIdle
     /\ w.pc = "execute"
     /\ w.phase = "work"
     /\ \E op \in WorkerOps :
          /\ tasks' = [tasks EXCEPT ![t] = AfterWorkerOp(t, WorkerId(w), op)]
          /\ claims' = IF op = "release" /\ HeldBy(t, WorkerId(w))
                       THEN Reopen(t) ELSE claims
     /\ worker_tasks' = [worker_tasks EXCEPT ![i].pc = "sleep",
                                             ![i].phase = "none"]
     /\ UNCHANGED << worker_configs, foreman_config, foreman_session,
                     shutdown_event, initialized, sessions, callVars,
                     shutVars >>

\* ----------------------------------------------- the foreman's delegate

\* while it runs, the foreman delegate creates an issue with a category
CoordCreate(c) ==
  /\ LoopIdle
  /\ ctask[c].state = "running"
  /\ Len(tasks) < MaxTasks
  /\ \E cat \in Categories : tasks' = Append(tasks, NewIssue(cat))
  /\ claims' = Append(claims, 0)
  /\ UNCHANGED << orchVars, callVars, shutVars >>

\* ... unblocks an issue with the user's info
CoordUnblock(c) ==
  /\ LoopIdle
  /\ ctask[c].state = "running"
  /\ \E t \in 1..Len(tasks) :
       /\ CanUnblock(t)
       /\ tasks' = [tasks EXCEPT ![t] = Unblocked(t, "info")]
       /\ claims' = Reopen(t)
  /\ UNCHANGED << orchVars, callVars, shutVars >>

\* ... closes an issue
CoordClose(c) ==
  /\ LoopIdle
  /\ ctask[c].state = "running"
  /\ \E t \in 1..Len(tasks) :
       /\ CanClose(t)
       /\ tasks' = [tasks EXCEPT ![t] = Closed(t)]
  /\ UNCHANGED << orchVars, callVars, shutVars, claims >>

\* ------------------------------------------------------------ _worker_loop

\* a loop that never looks at the shutdown event
LoopForever == TRUE

\* `while not self._shutdown_event.is_set()`
LoopCondition == ~shutdown_event

\* the loop's head: another cycle, or out of the loop and the session
EnterCycle(w) ==
  IF LoopCondition
  THEN [w EXCEPT !.pc = "execute", !.phase = "list", !.target = NoTask]
  ELSE [w EXCEPT !.pc = "done", !.phase = "none", !.target = NoTask]

\* the worker's session is entered and given its instructions, or the mount
\* plan fails and the task ends with the exception
WorkerSetup(i) ==
  /\ LoopIdle
  /\ worker_tasks[i].pc = "init"
  /\ worker_tasks' = [worker_tasks EXCEPT ![i] =
       IF worker_tasks[i].ok THEN EnterCycle(worker_tasks[i])
       ELSE [worker_tasks[i] EXCEPT !.pc = "failed"]]
  /\ UNCHANGED << worker_configs, foreman_config, foreman_session,
                  shutdown_event, initialized, sessions, callVars, shutVars,
                  queueVars >>

\* the delegate's exception handled only by the outer `except`, which
\* re-raises it
CycleCrashes(w) == [w EXCEPT !.pc = "failed", !.phase = "none"]

\* `except Exception` inside the loop: log and sleep
CycleFailed(w) == [w EXCEPT !.pc = "backoff", !.phase = "none"]

\* `await asyncio.sleep(5)` after a cycle ("Delay between cycles") and
\* `await asyncio.sleep(5)` in `except Exception` ("Longer delay on
\* error"), in seconds
CycleDelay == 5
ErrorDelay == 5

\* the seconds of the asyncio.sleep a suspended loop is in
SleepSeconds(w) ==
  IF w.pc = "backoff" THEN ErrorDelay
  ELSE IF w.pc = "sleep" THEN CycleDelay
  ELSE 0

\* the worker delegate raises
ExecRaises(i) ==
  /\ LoopIdle
  /\ worker_tasks[i].pc = "execute"
  /\ worker_tasks' = [worker_tasks EXCEPT ![i] = CycleFailed(worker_tasks[i])]
  /\ UNCHANGED << worker_configs, foreman_config, foreman_session,
                  shutdown_event, initialized, sessions, callVars, shutVars,
                  queueVars >>

\* a loop that runs a single cycle: after its sleep the task ends
WorkerWakeEndsLoop(i) ==
  /\ LoopIdle
  /\ worker_tasks[i].pc \in {"sleep", "backoff"}
  /\ worker_tasks' = [worker_tasks EXCEPT ![i].pc = "done",
                                          ![i].phase = "none",
                                          ![i].target = NoTask]
  /\ UNCHANGED << worker_configs, foreman_config, foreman_session,
                  shutdown_event, initialized, sessions, callVars, shutVars,
                  queueVars >>

\* asyncio.sleep(5) returns, after a cycle or after a failed cycle
WorkerWake(i) ==
  /\ LoopIdle
  /\ worker_tasks[i].pc \in {"sleep", "backoff"}
  /\ worker_tasks' = [worker_tasks EXCEPT ![i] = EnterCycle(worker_tasks[i])]
  /\ UNCHANGED << worker_configs, foreman_config, foreman_session,
                  shutdown_event, initialized, sessions, callVars, shutVars,
                  queueVars >>

\* a loop that ends when its delegate finds no work
ExecNoWorkEndsLoop(i) ==
  /\ LoopIdle
  /\ worker_tasks[i].pc = "execute"
  /\ worker_tasks[i].phase = "list"
  /\ WorkerListing(worker_tasks[i]) = {}
  /\ worker_tasks' = [worker_tasks EXCEPT ![i].pc = "done",
                                          ![i].phase = "none"]
  /\ UNCHANGED << worker_configs, foreman_config, foreman_session,
                  shutdown_event, initialized, sessions, callVars, shutVars,
                  queueVars >>

\* the delegate lists the open issues of the worker's category and finds
\* none: it answers "no work", the loop logs and sleeps
ExecNoWork(i) ==
  /\ LoopIdle
  /\ worker_tasks[i].pc = "execute"
  /\ worker_tasks[i].phase = "list"
  /\ WorkerListing(worker_tasks[i]) = {}
  /\ worker_tasks' = [worker_tasks EXCEPT ![i].pc = "sleep",
                                          ![i].phase = "none"]
  /\ UNCHANGED << worker_configs, foreman_config, foreman_session,
                  shutdown_event, initialized, sessions, callVars, shutVars,
                  queueVars >>

\* ---------------------------------------------------- ObserverOrchestrator

ObserverIxs == 1..Len(observer_loops)

\* execute_user_message after `await self._initialize()`
ObsStartExecution(c) ==
  IF main_session' = NoSession
  THEN /\ clast' = [clast EXCEPT ![c] = Raised]
       /\ cpc' = [cpc EXCEPT ![c] = "idle"]
       /\ UNCHANGED ctask
  ELSE /\ cpc' = [cpc EXCEPT ![c] = "poll"]
       /\ ctask' = [ctask EXCEPT ![c] =
                      [state |-> "running", session |-> main_session',
                       result |-> "none"]]
       /\ UNCHANGED clast

\* execute_user_message up to its first await: _initialize returns at once
\* when _initialized is set, else constructs the main session and awaits
\* its __aenter__
ObsCallStart(c) ==
  /\ LoopIdle
  /\ cpc[c] = "idle"
  /\ msgCount < MaxMessages
  /\ msgCount' = msgCount + 1
  /\ IF initialized
     THEN /\ UNCHANGED << sessions, main_session >>
          /\ ObsStartExecution(c)
     ELSE /\ sessions' = Append(sessions, [entered |-> 1, exited |-> 0])
          /\ main_session' = Len(sessions) + 1
          /\ cpc' = [cpc EXCEPT ![c] = "aenter"]
          /\ UNCHANGED << ctask, clast >>
  /\ UNCHANGED << worker_configs, foreman_config, foreman_session,
                  worker_tasks, shutdown_event, initialized, cmine, shutVars,
                  queueVars, orchestrator, observer_configs, main_config,
                  observer_loops, observer_tasks, work_state >>

\* __aenter__ returned: self.main_session.coordinator.get("context"), which
\* raises when main_session was set to None meanwhile or no context manager
\* is mounted; then await context.add_message
ObsInitEntered(c) ==
  /\ LoopIdle
  /\ cpc[c] = "aenter"
  /\ IF main_session = NoSession \/ main_config = "no_context"
     THEN /\ clast' = [clast EXCEPT ![c] = Raised]
          /\ cpc' = [cpc EXCEPT ![c] = "idle"]
     ELSE /\ cpc' = [cpc EXCEPT ![c] = "add_message"]
          /\ UNCHANGED clast
  /\ UNCHANGED << orchVars, cmine, ctask, msgCount, shutVars, queueVars,
                  orchestrator, obsVars >>

\* _start_observers: one task per observer config, appended to the list;
\* last_pass is the branch the loop's last pass took, created the number of
\* issues the delegate of the loop's current or last review has created,
\* phase where a review is: entering its session or inside session.execute
StartObservers ==
  [n \in 1..Len(observer_configs) |->
     [name |-> observer_configs[n], pc |-> "init", last_pass |-> "none",
      last_review_state |-> NoState, current_state |-> NoState,
      created |-> 0, phase |-> "none"]]

\* add_message returned: _start_observers (no await inside), _initialized,
\* and the execution task
ObsInitFinish(c) ==
  /\ LoopIdle
  /\ cpc[c] = "add_message"
  /\ observer_loops' = observer_loops \o StartObservers
  /\ observer_tasks' = observer_tasks \o
       [n \in 1..Len(observer_configs) |-> Len(observer_loops) + n]
  /\ initialized' = TRUE
  /\ UNCHANGED main_session
  /\ ObsStartExecution(c)
  /\ UNCHANGED << worker_configs, foreman_config, foreman_session,
                  worker_tasks, shutdown_event, sessions, cmine, msgCount,
                  shutVars, queueVars, orchestrator, observer_configs,
                  main_config, work_state >>

\* `return await task`
AwaitTask(c) ==
  IF ctask[c].state = "done"
  THEN [kind |-> "returned", value |-> ctask[c].result]
  ELSE Raised

\* the polling loop sees task.done()
ObsPollDone(c) ==
  /\ cpc[c] = "poll"
  /\ ctask[c].state \in {"done", "failed"}
  /\ clast' = [clast EXCEPT ![c] = AwaitTask(c)]
  /\ ctask' = [ctask EXCEPT ![c] = NoExec]
  /\ cpc' = [cpc EXCEPT ![c] = "idle"]
  /\ UNCHANGED << orchVars, cmine, msgCount, shutVars, queueVars,
                  orchestrator, obsVars >>

\* _get_work_state: stat() of some file raises
StatRaises == \E f \in work_state : ~f.readable

RECURSIVE SortedParts(_)
\* state_parts.sort(): the parts in the order of their paths
SortedParts(S) ==
  IF S = {} THEN << >>
  ELSE LET f == CHOOSE g \in S : \A h \in S : g.path <= h.path
       IN << << f.path, f.mtime, f.size >> >> \o SortedParts(S \ {f})

\* _get_work_state when no stat() raises: None without files, else the
\* sorted `path:mtime:size` parts
get_work_state ==
  IF work_state = {} THEN NoState ELSE SortedParts(work_state)

\* `except Exception` around a pass whose fingerprint raised that forgets
\* what was reviewed
FingerprintFailedResets(w) ==
  [w EXCEPT !.pc = "wait", !.last_pass = "fingerprint_raised",
            !.last_review_state = NoState]

\* `except Exception` around a pass whose fingerprint raised: logged, on to
\* wait_for
FingerprintFailed(w) ==
  [w EXCEPT !.pc = "wait", !.last_pass = "fingerprint_raised"]

\* a test that forgets the baseline: `if current_state`
DetectedAnything(w) == get_work_state # NoState

\* `if current_state and current_state != last_review_state`
DetectedChanges(w) ==
  get_work_state # NoState /\ get_work_state # w.last_review_state

\* an observer loop that never looks at the event
ObserverCycleIgnoresEvent(w) ==
  IF StatRaises
  THEN {FingerprintFailed(w)}
  ELSE IF DetectedChanges(w)
  THEN {[w EXCEPT !.pc = "review", !.last_pass = "review",
                   !.current_state = get_work_state, !.created = 0,
                   !.phase = "enter"]}
  ELSE {[w EXCEPT !.pc = "wait", !.last_pass = "skipped"]}

\* _observer_loop, one pass from the loop test to the next await: the loop
\* test, _get_work_state (no await inside) and the comparison with the
\* baseline; a review starts with the session's __aenter__, anything else
\* ends in wait_for
ObserverCycle(w) ==
  IF shutdown_event
  THEN {[w EXCEPT !.pc = "done"]}
  ELSE IF StatRaises
  THEN {FingerprintFailed(w)}
  ELSE IF DetectedChanges(w)
  THEN {[w EXCEPT !.pc = "review", !.last_pass = "review",
                   !.current_state = get_work_state, !.created = 0,
                   !.phase = "enter"]}
  ELSE {[w EXCEPT !.pc = "wait", !.last_pass = "skipped"]}

ObsUnchangedByLoop ==
  UNCHANGED << orchVars, callVars, shutVars, queueVars, orchestrator,
               observer_configs, main_config, main_session, observer_tasks,
               work_state >>

\* the task created by _start_observers runs for the first time
ObsLoopStart(i) ==
  /\ LoopIdle
  /\ observer_loops[i].pc = "init"
  /\ \E w \in ObserverCycle(observer_loops[i]) :
       observer_loops' = [observer_loops EXCEPT ![i] = w]
  /\ ObsUnchangedByLoop

\* the review session's __aenter__ and add_message returned: the loop calls
\* session.execute(prompt) without another look at the event
ObsReviewEntered(i) ==
  /\ LoopIdle
  /\ observer_loops[i].pc = "review"
  /\ observer_loops[i].phase = "enter"
  /\ observer_loops' = [observer_loops EXCEPT ![i].phase = "execute"]
  /\ ObsUnchangedByLoop

\* the issue a review creates: type task, the observer's name in its
\* metadata and no category
FeedbackIssue(observer) == NewIssue("none")

\* while session.execute(prompt) of a review runs, its delegate creates an
\* issue; the loop neither counts nor limits what the delegate creates
ObsReviewCreates(i) ==
  /\ LoopIdle
  /\ observer_loops[i].pc = "review"
  /\ observer_loops[i].phase = "execute"
  /\ Len(tasks) < MaxToolCalls
  /\ tasks' = Append(tasks, FeedbackIssue(observer_loops[i].name))
  /\ claims' = Append(claims, 0)
  /\ observer_loops' = [observer_loops EXCEPT ![i].created = @ + 1]
  /\ UNCHANGED << orchVars, callVars, shutVars, orchestrator,
                  observer_configs, main_config, main_session, observer_tasks,
                  work_state >>

\* a review that fingerprints the files again when it ends and records that
ObsReviewDoneRereads(i) ==
  /\ LoopIdle
  /\ observer_loops[i].pc = "review"
  /\ observer_loops[i].phase = "execute"
  /\ LET w == observer_loops[i]
     IN observer_loops' =
          [observer_loops EXCEPT ![i] =
             [w EXCEPT !.pc = "wait", !.last_pass = "reviewed",
                       !.last_review_state = get_work_state,
                       !.phase = "none"]]
  /\ ObsUnchangedByLoop

\* the review session's execute returned: `last_review_state =
\* current_state`, then wait_for
ObsReviewDone(i) ==
  /\ LoopIdle
  /\ observer_loops[i].pc = "review"
  /\ observer_loops[i].phase = "execute"
  /\ LET w == observer_loops[i]
     IN observer_loops' =
          [observer_loops EXCEPT ![i] =
             [w EXCEPT !.pc = "wait", !.last_pass = "reviewed",
                       !.last_review_state = w.current_state,
                       !.phase = "none"]]
  /\ ObsUnchangedByLoop

\* the review raised, in the session's setup or in session.execute:
\* `except Exception`, then wait_for
ObsReviewFails(i) ==
  /\ LoopIdle
  /\ observer_loops[i].pc = "review"
  /\ observer_loops' = [observer_loops EXCEPT ![i].pc = "wait",
                                              ![i].last_pass = "review_raised",
                                              ![i].phase = "none"]
  /\ ObsUnchangedByLoop

\* a wait_for whose TimeoutError is not caught: the timeout ends the loop
\* task
ObsWakeTimeoutEscapes(i) ==
  /\ LoopIdle
  /\ observer_loops[i].pc = "wait"
  /\ observer_loops' =
       [observer_loops EXCEPT ![i].pc =
          IF shutdown_event THEN "done" ELSE "failed"]
  /\ ObsUnchangedByLoop

\* wait_for returned: `break` when the event is set, else the timeout and
\* the next pass
ObsWake(i) ==
  /\ LoopIdle
  /\ observer_loops[i].pc = "wait"
  /\ \E w \in ObserverCycle(observer_loops[i]) :
       observer_loops' = [observer_loops EXCEPT ![i] = w]
  /\ ObsUnchangedByLoop

\* one operation on a file under the watched paths: it is created, removed,
\* written, or its permissions change
WorkChanges ==
  /\ LoopIdle
  /\ \E p \in Paths :
       \E new \in {{}} \cup {{f} : f \in {g \in Files : g.path = p}} :
         /\ work_state' = {f \in work_state : f.path # p} \cup new
         /\ work_state' # work_state
  /\ UNCHANGED << orchVars, callVars, shutVars, queueVars, orchestrator,
                  observer_configs, main_config, main_session,
                  observer_loops, observer_tasks >>

\* shutdown from `if self.main_session is not None` on
ObsCloseMain ==
  IF main_session # NoSession
  THEN /\ sessions' = [sessions EXCEPT ![main_session].exited = @ + 1]
       /\ spc' = "aexit"
       /\ UNCHANGED << initialized, slast >>
  ELSE /\ initialized' = FALSE
       /\ spc' = "idle"
       /\ slast' = "closed"
       /\ UNCHANGED sessions

\* shutdown up to its first await
ObsShutdownCall ==
  /\ LoopIdle
  /\ spc = "idle"
  /\ shutdown_event' = TRUE
  /\ IF observer_tasks # << >>
     THEN /\ spc' = "gather"
          /\ gathered' = Len(observer_tasks)
          /\ UNCHANGED << sessions, initialized, slast >>
     ELSE /\ ObsCloseMain
          /\ UNCHANGED gathered
  /\ UNCHANGED << worker_configs, foreman_config, foreman_session,
                  worker_tasks, callVars, queueVars, orchestrator, obsVars >>

\* gather returned: self.observer_tasks.clear()
ObsShutdownGathered ==
  /\ LoopIdle
  /\ spc = "gather"
  /\ \A k \in 1..gathered : Finished(observer_loops[observer_tasks[k]])
  /\ observer_tasks' = << >>
  /\ ObsCloseMain
  /\ UNCHANGED << worker_configs, foreman_config, foreman_session,
                  worker_tasks, shutdown_event, callVars, gathered,
                  queueVars, orchestrator, observer_configs, main_config,
                  main_session, observer_loops, work_state >>

\* __aexit__ returned: `self.main_session = None`
ObsShutdownClosed ==
  /\ LoopIdle
  /\ spc = "aexit"
  /\ main_session' = NoSession
  /\ initialized' = FALSE
  /\ spc' = "idle"
  /\ slast' = "closed"
  /\ UNCHANGED << worker_configs, foreman_config, foreman_session,
                  worker_tasks, shutdown_event, sessions, callVars, gathered,
                  queueVars, orchestrator, observer_configs, main_config,
                  observer_loops, observer_tasks, work_state >>

\* ------------------------------------------------------------------- specs

\* a step of the ForemanWorkerOrchestrator, a step of the
\* ObserverOrchestrator
FW(A) ==
  /\ orchestrator = "foreman_worker"
  /\ A
  /\ UNCHANGED << orchestrator, obsVars, mcVars >>

Obs(A) == orchestrator = "observers" /\ A /\ UNCHANGED mcVars

\* the delegate of the main session, which touches no field of the
\* orchestrator
ObsExec(A) == Obs(A) /\ UNCHANGED << orchestrator, obsVars >>

Next ==
  \/ \E c \in Callers : FW(CallStart(c))
  \/ \E c \in Callers : FW(InitEntered(c))
  \/ \E c \in Callers : FW(InitFinish(c))
  \/ \E c \in Callers : FW(ExecReturns(c))
  \/ \E c \in Callers : FW(ExecFails(c))
  \/ \E c \in Callers : FW(PollDone(c))
  \/ FW(ShutdownCall)
  \/ FW(ShutdownGathered)
  \/ FW(ShutdownClosed)
  \/ \E i \in 1..Len(worker_tasks) : FW(WorkerSetup(i))
  \/ \E i \in 1..Len(worker_tasks) : FW(ExecNoWork(i))
  \/ \E i \in 1..Len(worker_tasks) : FW(ExecRaises(i))
  \/ \E i \in 1..Len(worker_tasks) : FW(WorkerWake(i))
  \/ \E c \in Callers : Obs(ObsCallStart(c))
  \/ \E c \in Callers : Obs(ObsInitEntered(c))
  \/ \E c \in Callers : Obs(ObsInitFinish(c))
  \/ \E c \in Callers : ObsExec(ExecReturns(c))
  \/ \E c \in Callers : ObsExec(ExecFails(c))
  \/ \E c \in Callers : Obs(ObsPollDone(c))
  \/ Obs(ObsShutdownCall)
  \/ Obs(ObsShutdownGathered)
  \/ Obs(ObsShutdownClosed)
  \/ \E i \in ObserverIxs : Obs(ObsLoopStart(i))
  \/ \E i \in ObserverIxs : Obs(ObsReviewEntered(i))
  \/ \E i \in ObserverIxs : Obs(ObsReviewDone(i))
  \/ \E i \in ObserverIxs : Obs(ObsReviewFails(i))
  \/ \E i \in ObserverIxs : Obs(ObsWake(i))

Spec == Init /\ [][Next]_vars

\* the event loop runs every coroutine that is ready: the awaits of a call,
\* of shutdown and of each worker loop return; when a caller sends a message
\* or calls shutdown is up to the caller
\* the loop tasks there can be under FairInit: an initialization starts one
\* loop, and there are no more initializations than messages
LoopSlots == 1..MaxMessages

WorkerStep(i) ==
  /\ i \in 1..Len(worker_tasks)
  /\ FW(WorkerSetup(i) \/ ExecNoWork(i) \/ ExecRaises(i) \/ WorkerWake(i))

CallerStep(c) ==
  FW(InitEntered(c) \/ InitFinish(c) \/ ExecReturns(c) \/ ExecFails(c)
       \/ PollDone(c))

ShutdownStep == FW(ShutdownGathered \/ ShutdownClosed)

ObserverStep(i) ==
  /\ i \in ObserverIxs
  /\ Obs(ObsLoopStart(i) \/ ObsReviewEntered(i) \/ ObsReviewDone(i)
           \/ ObsReviewFails(i) \/ ObsWake(i))

ObsCallerStep(c) ==
  \/ Obs(ObsInitEntered(c) \/ ObsInitFinish(c) \/ ObsPollDone(c))
  \/ ObsExec(ExecReturns(c) \/ ExecFails(c))

ObsShutdownStep == Obs(ObsShutdownGathered \/ ObsShutdownClosed)

Fairness ==
  /\ \A c \in Callers : WF_vars(CallerStep(c))
  /\ WF_vars(ShutdownStep)
  /\ \A i \in LoopSlots : WF_vars(WorkerStep(i))
  /\ \A c \in Callers : WF_vars(ObsCallerStep(c))
  /\ WF_vars(ObsShutdownStep)
  /\ \A i \in LoopSlots : WF_vars(ObserverStep(i))

FairInit ==
  \/ /\ worker_configs \in FairConfigs
     /\ foreman_config = "ok"
     /\ InitCommon
     /\ NoObservers
  \/ /\ ObserverInit
     /\ main_config = "ok"
     /\ Len(observer_configs) = 1

FairSpec == FairInit /\ [][Next]_vars /\ Fairness

\* the queue's environment: a mount plan that works and one message, whose
\* delegate runs on while the workers work
QCallers == {"c1"}

QInit ==
  /\ worker_configs \in QueueConfigs
  /\ foreman_config = "ok"
  /\ InitCommon
  /\ NoObservers

QNext ==
  \/ \E c \in QCallers : FW(msgCount = 0 /\ CallStart(c))
  \/ \E c \in QCallers : FW(InitEntered(c))
  \/ \E c \in QCallers : FW(InitFinish(c))
  \/ \E c \in QCallers : FW(CoordCreate(c))
  \/ \E c \in QCallers : FW(CoordUnblock(c))
  \/ \E c \in QCallers : FW(CoordClose(c))
  \/ \E i \in 1..Len(worker_tasks) : FW(WorkerSetup(i))
  \/ \E i \in 1..Len(worker_tasks) : FW(ExecNoWork(i))
  \/ \E i \in 1..Len(worker_tasks) : FW(ExecPick(i))
  \/ \E i \in 1..Len(worker_tasks) : FW(ExecClaim(i))
  \/ \E i \in 1..Len(worker_tasks) : FW(ExecAfterConflict(i))
  \/ \E i \in 1..Len(worker_tasks) : FW(ExecFinish(i))
  \/ \E i \in 1..Len(worker_tasks) : FW(ExecRaises(i))
  \/ \E i \in 1..Len(worker_tasks) : FW(WorkerWake(i))

QueueSpec == QInit /\ [][QNext]_vars

\* the worker loops there are under QInit: both QueueConfigs start two
QueueSlots == {1, 2}

\* the event loop runs every ready coroutine of the queue's environment; a
\* delegate that is shown an issue in listing after listing picks it in the
\* end, and the claim of an issue that is tried again and again is not cut
\* off by a failure every time
QueueFairness ==
  /\ \A c \in QCallers : WF_vars(FW(InitEntered(c) \/ InitFinish(c)))
  /\ \A i \in QueueSlots :
       /\ WF_vars(i \in 1..Len(worker_tasks)
                    /\ FW(WorkerSetup(i) \/ ExecNoWork(i) \/ ExecPick(i)
                            \/ ExecClaim(i) \/ ExecAfterConflict(i)
                            \/ ExecFinish(i) \/ ExecRaises(i)
                            \/ WorkerWake(i)))
       /\ \A t \in 1..MaxTasks :
            /\ SF_vars(i \in 1..Len(worker_tasks)
                         /\ FW(ExecPick(i)) /\ worker_tasks'[i].target = t)
            /\ SF_vars(i \in 1..Len(worker_tasks)
                         /\ worker_tasks[i].target = t /\ FW(ExecClaim(i)))

FairQueueSpec == QInit /\ [][QNext]_vars /\ QueueFairness

\* some worker loop is inside a cycle: its delegate runs
MidCycle == \E i \in 1..Len(worker_tasks) : worker_tasks[i].pc = "execute"

\* the queue's environment with a shutdown call that arrives while a worker
\* loop is inside a cycle
StopNext ==
  \/ QNext
  \/ FW(MidCycle /\ ShutdownCall)
  \/ FW(ShutdownGathered)
  \/ FW(ShutdownClosed)

StopSpec == QInit /\ [][StopNext]_vars

\* a call of execute_user_message is inside _initialize
InitInProgress == \E c \in Callers : cpc[c] \in {"aenter", "add_message"}

\* the queue's environment with a shutdown call that arrives while the
\* first message's initialization is in progress
InitStopNext ==
  \/ QNext
  \/ FW(InitInProgress /\ ShutdownCall)

InitStopSpec == QInit /\ [][InitStopNext]_vars

\* an ObserverOrchestrator whose main session works, one message whose
\* delegate runs on, and watched files that change while the observer loop
\* runs
ReviewInit ==
  /\ ObserverInit
  /\ main_config = "ok"

ReviewNext ==
  \/ \E c \in QCallers : Obs(msgCount = 0 /\ ObsCallStart(c))
  \/ \E c \in QCallers : Obs(ObsInitEntered(c))
  \/ \E c \in QCallers : Obs(ObsInitFinish(c))
  \/ Obs(ObsShutdownCall)
  \/ Obs(ObsShutdownGathered)
  \/ Obs(ObsShutdownClosed)
  \/ \E i \in ObserverIxs : Obs(ObsLoopStart(i))
  \/ \E i \in ObserverIxs : Obs(ObsReviewEntered(i))
  \/ \E i \in ObserverIxs : Obs(ObsReviewDone(i))
  \/ \E i \in ObserverIxs : Obs(ObsReviewFails(i))
  \/ \E i \in ObserverIxs : Obs(ObsWake(i))
  \/ Obs(WorkChanges)

ReviewSpec == ReviewInit /\ [][ReviewNext]_vars

\* the same with review delegates that create issues
FeedbackNext ==
  \/ ReviewNext
  \/ \E i \in ObserverIxs : Obs(ObsReviewCreates(i))

FeedbackSpec == ReviewInit /\ [][FeedbackNext]_vars

\* the loop tasks there can be under ReviewInit: the one initialization
\* starts the loop of the one observer config
ReviewSlots == {1}

\* the event loop runs the observer loop whenever it is ready, and a review
\* that is tried again and again does not fail every time
ReviewFairness ==
  \A i \in ReviewSlots :
    /\ WF_vars(ObserverStep(i))
    /\ SF_vars(i \in ObserverIxs /\ Obs(ObsReviewEntered(i)))
    /\ SF_vars(i \in ObserverIxs /\ Obs(ObsReviewDone(i)))

FairReviewSpec == ReviewInit /\ [][ReviewNext]_vars /\ ReviewFairness

\* ------------------------------------------------ MultiContextOrchestrator

\* ExecutionContext.max_history and the calls of add_message taken between
\* two calls of clear_history
MaxHistory == 2
MaxAdded == 3

Roles == {"user", "assistant"}
Contents == {"x", "y"}

ContextNames == {"a", "b"}
NoProfile == "none"

\* the profiles that have a mount plan file in mount_plans_dir
MountPlans == {"dev"}

Task(context_name, prompt, profile) ==
  [context_name |-> context_name, prompt |-> prompt, profile |-> profile]

Phase(execution_mode, phase_tasks) ==
  [execution_mode |-> execution_mode, tasks |-> phase_tasks]

\* the workflows handed to execute_workflow: a parallel phase before a
\* sequential one and the reverse, tasks that share a profile and a context,
\* a task with no profile at all and one whose profile has no mount plan
Workflows ==
  { [default_profile |-> "dev",
     phases |-> << Phase("parallel", << Task("a", "x", NoProfile),
                                        Task("b", "y", "dev") >>),
                   Phase("sequential", << Task("a", "y", "qa"),
                                          Task("b", "x", NoProfile) >>) >>],
    [default_profile |-> NoProfile,
     phases |-> << Phase("sequential", << Task("a", "x", NoProfile),
                                          Task("a", "y", "dev") >>),
                   Phase("parallel", << Task("a", "x", "dev"),
                                        Task("b", "y", "dev") >>) >>] }

\* Python's s[k:] on a list
SliceFrom(s, k) ==
  LET start == IF k < 0 THEN (IF Len(s) + k < 0 THEN 0 ELSE Len(s) + k)
               ELSE (IF k > Len(s) THEN Len(s) ELSE k)
  IN  SubSeq(s, start + 1, Len(s))

\* ExecutionContext.__init__
ExecutionContext(max_history) ==
  [history |-> << >>, max_history |-> max_history]

\* ExecutionContext.add_message
add_message(context, role, content) ==
  LET appended == Append(context.history,
                         [role |-> role, content |-> content])
  IN  [context EXCEPT
         !.history = IF Len(appended) > context.max_history
                       THEN SliceFrom(appended, -context.max_history)
                       ELSE appended]

\* ExecutionContext.clear_history
clear_history(context) == [context EXCEPT !.history = << >>]

\* get_or_create_context
get_or_create_context(context_name) ==
  IF context_name \in DOMAIN contexts THEN contexts
  ELSE contexts @@ (context_name :> ExecutionContext(max_context_history))

\* a call of add_message on the named context, from execute_task or from
\* any other holder of the context
Tracked(ctxs, context_name, role, content) ==
  /\ contexts' = [ctxs EXCEPT
                    ![context_name] = add_message(@, role, content)]
  /\ added' = [n \in DOMAIN ctxs |->
                 LET sofar == IF n \in DOMAIN added THEN added[n] ELSE << >>
                 IN  IF n = context_name
                       THEN Append(sofar, [role |-> role,
                                           content |-> content])
                       ELSE sofar]

AddMessage(context_name, role, content) ==
  /\ context_name \in DOMAIN contexts
  /\ Len(added[context_name]) < MaxAdded
  /\ Tracked(contexts, context_name, role, content)
  /\ UNCHANGED << workflow, max_context_history, pool, amplifier_sessions,
                  wpc, runs >>

\* clear_context
ClearContext(context_name) ==
  /\ context_name \in DOMAIN contexts
  /\ contexts' = [contexts EXCEPT ![context_name] = clear_history(@)]
  /\ added' = [added EXCEPT ![context_name] = << >>]
  /\ UNCHANGED << workflow, max_context_history, pool, amplifier_sessions,
                  wpc, runs >>

\* the fields of the other two orchestrators, which a
\* MultiContextOrchestrator does not have
MultiContextOnly ==
  /\ orchestrator = "multi_context"
  /\ worker_configs = << >>
  /\ foreman_config = "none"
  /\ observer_configs = << >>
  /\ main_config = "none"
  /\ main_session = NoSession
  /\ observer_loops = << >>
  /\ observer_tasks = << >>
  /\ work_state = {}
  /\ InitCommon

\* MultiContextOrchestrator.__init__ and the workflow that will be run
WorkflowInit ==
  /\ MultiContextOnly
  /\ workflow \in Workflows
  /\ max_context_history \in 0..MaxHistory
  /\ contexts = << >>
  /\ added = << >>
  /\ pool = << >>
  /\ amplifier_sessions = << >>
  /\ wpc = 0
  /\ runs = [p \in 1..Len(workflow.phases) |->
               [t \in 1..Len(workflow.phases[p].tasks) |->
                  [pc |-> "pending", session |-> NoSession,
                   response |-> "none", error |-> "none"]]]

\* an ExecutionContext on its own, constructed with some max_history
ContextInit ==
  /\ MultiContextOnly
  /\ workflow = << >>
  /\ max_context_history \in 0..MaxHistory
  /\ contexts = ("a" :> ExecutionContext(max_context_history))
  /\ added = ("a" :> << >>)
  /\ pool = << >>
  /\ amplifier_sessions = << >>
  /\ wpc = 0
  /\ runs = << >>

PhaseIxs == 1..Len(workflow.phases)
TaskIxs(p) == 1..Len(workflow.phases[p].tasks)

\* execute_task has returned its result
Returned(run) == run.pc \in {"success", "failure"}

\* execute_task: the result with success False and the error text
Failure(run, error) == [run EXCEPT !.pc = "failure", !.error = error]

\* execute_task: task_dict.get("profile") or default_profile
ProfileOf(task) ==
  IF task.profile # NoProfile THEN task.profile ELSE workflow.default_profile

\* execute_workflow is called
ExecuteWorkflow ==
  /\ wpc = 0
  /\ wpc' = 1
  /\ UNCHANGED << workflow, max_context_history, contexts, added, pool,
                  amplifier_sessions, runs >>

\* a gather that returns with the first task that returns
PhaseCompleteFirst(p) == \E t \in TaskIxs(p) : Returned(runs[p][t])

\* execute_phase: the tasks that gather was given have all returned, or the
\* sequential loop has awaited its last task
PhaseComplete(p) == \A t \in TaskIxs(p) : Returned(runs[p][t])

\* execute_phase returns and execute_workflow goes on to the next phase
PhaseReturns ==
  /\ wpc \in PhaseIxs
  /\ PhaseComplete(wpc)
  /\ wpc' = wpc + 1
  /\ UNCHANGED << workflow, max_context_history, contexts, added, pool,
                  amplifier_sessions, runs >>

\* execute_phase: a parallel phase hands all its tasks to gather, which
\* starts them in list order; a sequential phase awaits one task before it
\* calls the next
MayStart(p, t) ==
  /\ wpc = p
  /\ runs[p][t].pc = "pending"
  /\ IF workflow.phases[p].execution_mode = "parallel"
       THEN \A u \in 1..(t - 1) : runs[p][u].pc # "pending"
       ELSE \A u \in 1..(t - 1) : Returned(runs[p][u])

\* execute_task up to its first await: the profile test, the user message in
\* the context, and _get_or_create_session up to `await __aenter__()`
TaskStart(p, t) ==
  LET task == workflow.phases[p].tasks[t]
      profile == ProfileOf(task)
  IN  /\ MayStart(p, t)
      /\ UNCHANGED << workflow, max_context_history, wpc >>
      /\ IF profile = NoProfile
           THEN /\ runs' = [runs EXCEPT
                              ![p][t] = Failure(@, "No profile specified for task")]
                /\ UNCHANGED << contexts, added, pool, amplifier_sessions >>
           ELSE /\ Tracked(get_or_create_context(task.context_name),
                           task.context_name, "user", task.prompt)
                /\ UNCHANGED pool
                /\ IF profile \in DOMAIN pool
                     THEN /\ runs' = [runs EXCEPT
                                        ![p][t].pc = "execute",
                                        ![p][t].session = pool[profile]]
                          /\ UNCHANGED amplifier_sessions
                     ELSE IF profile \notin MountPlans
                       THEN /\ runs' = [runs EXCEPT
                                          ![p][t] =
                                             Failure(@, "Mount plan not found")]
                            /\ UNCHANGED amplifier_sessions
                       ELSE /\ amplifier_sessions' =
                                 Append(amplifier_sessions,
                                        [profile |-> profile, entered |-> 0,
                                         exited |-> 0])
                            /\ runs' = [runs EXCEPT
                                          ![p][t].pc = "aenter",
                                          ![p][t].session =
                                             Len(amplifier_sessions) + 1]

\* _get_or_create_session: __aenter__ returned, the session goes into the
\* pool and execute_task calls session.execute
SessionEntered(p, t) ==
  LET session == runs[p][t].session
      profile == amplifier_sessions[session].profile
  IN  /\ runs[p][t].pc = "aenter"
      /\ amplifier_sessions' =
           [amplifier_sessions EXCEPT ![session].entered = @ + 1]
      /\ pool' = [q \in DOMAIN pool \cup {profile} |->
                    IF q = profile THEN session ELSE pool[q]]
      /\ runs' = [runs EXCEPT ![p][t].pc = "execute"]
      /\ UNCHANGED << workflow, max_context_history, contexts, added, wpc >>

\* execute_task: `except Exception` after __aenter__ raised
SessionFails(p, t) ==
  /\ runs[p][t].pc = "aenter"
  /\ runs' = [runs EXCEPT ![p][t] = Failure(@, "__aenter__ raised")]
  /\ UNCHANGED << workflow, max_context_history, contexts, added, pool,
                  amplifier_sessions, wpc >>

\* execute_task: session.execute returned, the response goes into the
\* context
ExecuteReturns(p, t, response) ==
  LET task == workflow.phases[p].tasks[t]
  IN  /\ runs[p][t].pc = "execute"
      /\ Tracked(contexts, task.context_name, "assistant", response)
      /\ runs' = [runs EXCEPT ![p][t].pc = "success",
                              ![p][t].response = response]
      /\ UNCHANGED << workflow, max_context_history, pool,
                      amplifier_sessions, wpc >>

\* an execute_task without its `except Exception`: the executor's exception
\* leaves execute_task
ExecuteRaisesEscapes(p, t) ==
  /\ runs[p][t].pc = "execute"
  /\ runs' = [runs EXCEPT ![p][t].pc = "raised"]
  /\ UNCHANGED << workflow, max_context_history, contexts, added, pool,
                  amplifier_sessions, wpc >>

\* execute_task: `except Exception` after session.execute raised
ExecuteRaises(p, t) ==
  /\ runs[p][t].pc = "execute"
  /\ runs' = [runs EXCEPT ![p][t] = Failure(@, "execute raised")]
  /\ UNCHANGED << workflow, max_context_history, contexts, added, pool,
                  amplifier_sessions, wpc >>

\* execute_workflow has returned its summary
WorkflowReturned == wpc = Len(workflow.phases) + 1

\* cleanup, called as in the class's usage once execute_workflow returned:
\* __aexit__ of every session in the pool, an exception of which is logged,
\* then sessions.clear()
Cleanup ==
  /\ WorkflowReturned
  /\ amplifier_sessions' =
       [s \in DOMAIN amplifier_sessions |->
          IF \E profile \in DOMAIN pool : pool[profile] = s
            THEN [amplifier_sessions[s] EXCEPT !.exited = @ + 1]
            ELSE amplifier_sessions[s]]
  /\ pool' = << >>
  /\ wpc' = wpc + 1
  /\ UNCHANGED << workflow, max_context_history, contexts, added, runs >>

\* a step of the MultiContextOrchestrator
MC(A) ==
  /\ orchestrator = "multi_context"
  /\ A
  /\ UNCHANGED << orchVars, callVars, shutVars, queueVars, orchestrator,
                  obsVars >>

WorkflowNext ==
  \/ MC(ExecuteWorkflow)
  \/ MC(PhaseReturns)
  \/ \E p \in PhaseIxs : \E t \in TaskIxs(p) : MC(TaskStart(p, t))
  \/ \E p \in PhaseIxs : \E t \in TaskIxs(p) : MC(SessionEntered(p, t))
  \/ \E p \in PhaseIxs : \E t \in TaskIxs(p) : MC(SessionFails(p, t))
  \/ \E p \in PhaseIxs : \E t \in TaskIxs(p) :
       MC(ExecuteReturns(p, t, "r1"))
  \/ \E p \in PhaseIxs : \E t \in TaskIxs(p) : MC(ExecuteRaises(p, t))
  \/ MC(Cleanup)

WorkflowSpec == WorkflowInit /\ [][WorkflowNext]_vars

ContextNext ==
  \/ \E role \in Roles : \E content \in Contents :
       MC(AddMessage("a", role, content))
  \/ MC(ClearContext("a"))

ContextSpec == ContextInit /\ [][ContextNext]_vars

\* ------------------------------------------------------ claims, QueueSpec

TaskIds == 1..Len(tasks)
WorkerIxs == 1..Len(worker_tasks)

\* the workers whose claim of t succeeded and who are working on it
Holders(t) ==
  { i \in WorkerIxs : worker_tasks[i].phase = "work"
                      /\ worker_tasks[i].target = t }

\* the workers whose claim of t was answered with ConflictError
Refused(t) ==
  { i \in WorkerIxs : worker_tasks[i].phase = "conflict"
                      /\ worker_tasks[i].target = t }

\* C1: of the claim attempts made on an issue while it is open at most one
\* succeeds, the issue is then in progress and assigned to that worker, and
\* every other attempt is answered with ConflictError and changes nothing
C1_OneClaimWins ==
  /\ [](\A t \in TaskIds :
          /\ claims[t] <= 1
          /\ Cardinality(Holders(t)) <= 1
          /\ \A i \in Holders(t) :
               tasks[t].status = "in_progress"
                 => tasks[t].assignee = WorkerId(worker_tasks[i])
          /\ \A i \in Refused(t) :
               tasks[t].assignee # WorkerId(worker_tasks[i])
                 \/ tasks[t].status # "in_progress")
  /\ [][\A i \in WorkerIxs :
          LET t == worker_tasks[i].target
          IN (worker_tasks[i].phase = "claim"
                /\ worker_tasks'[i].phase # "claim"
                /\ worker_tasks'[i].pc = "execute")
             => IF tasks[t].status = "open" /\ tasks[t].assignee = NoActor
                THEN /\ worker_tasks'[i].phase = "work"
                     /\ tasks'[t].status = "in_progress"
                     /\ tasks'[t].assignee = WorkerId(worker_tasks[i])
                ELSE /\ worker_tasks'[i].phase = "conflict"
                     /\ tasks' = tasks]_vars

\* two workers tried to claim the same open issue: one holds it, the other
\* got ConflictError
C1_Witness ==
  \E t \in TaskIds :
    /\ Holders(t) # {}
    /\ Refused(t) # {}
    /\ tasks[t].status = "in_progress"

TransitionTable ==
  { << "open", "in_progress" >>,
    << "in_progress", "open" >>,
    << "in_progress", "pending_user_input" >>,
    << "in_progress", "blocked" >>,
    << "in_progress", "closed" >>,
    << "pending_user_input", "open" >>,
    << "blocked", "open" >>,
    << "open", "closed" >>,
    << "pending_user_input", "closed" >>,
    << "blocked", "closed" >> }

\* C2: every issue's status is one of the five statuses, an issue is created
\* open, and every change of an issue's status is a pair of the transition
\* table
C2_StatusTransitions ==
  /\ [](\A t \in TaskIds : tasks[t].status \in Statuses)
  /\ [][/\ Len(tasks') >= Len(tasks)
        /\ \A t \in 1..Len(tasks') :
             IF t \in TaskIds
             THEN tasks'[t].status # tasks[t].status
                    => << tasks[t].status, tasks'[t].status >>
                         \in TransitionTable
             ELSE tasks'[t].status = "open"]_vars

\* one issue went to closed and another waits for user input
C2_Witness ==
  \E t, u \in TaskIds :
    /\ tasks[t].status = "closed"
    /\ tasks[u].status = "pending_user_input"

SessionIds == 1..Len(sessions)

\* the coordinator session of either orchestrator, and its mount plan
CoordinatorSession ==
  IF orchestrator = "foreman_worker" THEN foreman_session ELSE main_session

CoordinatorConfig ==
  IF orchestrator = "foreman_worker" THEN foreman_config ELSE main_config

\* every loop task spawned so far has ended
AllLoopsFinished ==
  /\ \A i \in WorkerIxs : Finished(worker_tasks[i])
  /\ \A i \in ObserverIxs : Finished(observer_loops[i])

\* C4: before the first message there is no session and no loop task; as
\* long as no shutdown was called, an orchestrator whose mount plan works
\* has constructed at most one session, and every message waited for runs
\* on the orchestrator's session
C4_LazyInitOnce ==
  /\ [](msgCount = 0
          => /\ CoordinatorSession = NoSession
             /\ sessions = << >>
             /\ worker_tasks = << >>
             /\ observer_loops = << >>
             /\ ~initialized)
  /\ []((~shutdown_event /\ CoordinatorConfig = "ok") => Len(sessions) <= 1)
  /\ [](\A c \in Callers :
          (cpc[c] = "poll" /\ ~shutdown_event)
            => ctask[c].session = CoordinatorSession)

\* C5: a call whose delegate completed returns exactly the value the
\* delegate returned for it, and nothing changes that value while the call
\* waits
C5_ReturnsDelegateResult ==
  /\ [][\A c \in Callers :
          (cpc[c] = "poll" /\ cpc'[c] = "idle" /\ ctask[c].state = "done")
            => clast'[c] = [kind |-> "returned", value |-> ctask[c].result]]_vars
  /\ [][\A c \in Callers :
          (ctask[c].state = "done" /\ cpc'[c] = "poll")
            => ctask'[c] = ctask[c]]_vars

\* two overlapping calls returned different values while a worker loop had
\* run a cycle
C5_Witness ==
  /\ \E c, d \in Callers :
       /\ clast[c] = [kind |-> "returned", value |-> "r1"]
       /\ clast[d] = [kind |-> "returned", value |-> "r2"]
  /\ \E i \in WorkerIxs : worker_tasks[i].pc = "sleep"

\* a call waits for a delegate that has not completed
Waiting == \E c \in Callers : cpc[c] = "poll" /\ ctask[c].state = "running"

\* where the i-th worker task is, "none" when it was not spawned
PcOf(i) == IF i \in WorkerIxs THEN worker_tasks[i].pc ELSE "none"

\* C6: while a call waits for its delegate every worker loop that has not
\* ended can take its next step, and under fair scheduling takes it
C6_WorkersRunDuringWait ==
  /\ [](Waiting
          => \A i \in WorkerIxs :
               ~Finished(worker_tasks[i]) => ENABLED WorkerStep(i))
  /\ \A i \in LoopSlots :
       /\ (Waiting /\ PcOf(i) \in {"init", "sleep", "backoff"})
            ~> (PcOf(i) \in {"execute", "done", "failed"})
       /\ (Waiting /\ PcOf(i) = "execute")
            ~> (PcOf(i) \in {"sleep", "backoff"})

\* the delegate of the first message still runs and a worker loop that the
\* message's initialization spawned has finished a cycle
C6_Witness ==
  /\ msgCount = 1
  /\ Waiting
  /\ \E i \in WorkerIxs : worker_tasks[i].pc = "sleep"

\* C7: shutdown sets the event before it awaits the loop tasks, and calls
\* the coordinator session's __aexit__ only when every loop task spawned so
\* far has ended
C7_ShutdownOrder ==
  /\ [](spc = "gather" => shutdown_event)
  /\ [][(\E s \in SessionIds : sessions'[s].exited > sessions[s].exited)
          => (shutdown_event' /\ AllLoopsFinished)]_vars

\* C8: a shutdown call on an orchestrator that never handled a message
\* creates, enters and releases nothing, every shutdown call that is under
\* way can go on, and no session is released more often than it was entered
C8_ShutdownIdempotent ==
  /\ [](\A s \in SessionIds : sessions[s].exited <= sessions[s].entered)
  /\ [](msgCount = 0
          => sessions = << >> /\ worker_tasks = << >> /\ observer_loops = << >>)
  /\ [](spc = "aexit" => ENABLED (ShutdownStep \/ ObsShutdownStep))

\* C9: once shutdown is signalled every loop task ends, and a shutdown call
\* that is under way returns
C9_LoopsExitAfterShutdown ==
  /\ shutdown_event ~> AllLoopsFinished
  /\ (spc # "idle") ~> (spc = "idle")

\* shutdown returned after it had signalled worker loops that then ended
C9_Witness ==
  /\ shutdown_event
  /\ slast = "closed"
  /\ spc = "idle"
  /\ worker_tasks # << >>
  /\ \A i \in WorkerIxs : worker_tasks[i].pc = "done"

\* C10: a worker loop that is in its loop leaves it only when the shutdown
\* event is set; a delegate that raises puts the loop to sleep, and the
\* sleep is followed by the next cycle
C10_FailingCycleKeepsLoop ==
  /\ [][\A i \in WorkerIxs :
          (worker_tasks[i].pc \in {"execute", "sleep", "backoff"}
             /\ Finished(worker_tasks'[i]))
            => shutdown_event]_vars
  /\ [][\A i \in WorkerIxs :
          (worker_tasks[i].pc = "backoff" /\ worker_tasks'[i].pc # "backoff"
             /\ ~shutdown_event)
            => worker_tasks'[i].pc = "execute"]_vars

\* a delegate raised and the loop sleeps, with the shutdown event unset
C10_Witness ==
  /\ ~shutdown_event
  /\ \E i \in WorkerIxs : worker_tasks[i].pc = "backoff"

\* C11: shutdown never raises, and in an orchestrator whose foreman mount
\* plan works a call raises only when its own delegate failed, whatever
\* worker loops failed to start or failed a cycle; a shutdown whose awaited
\* tasks have ended goes on
C11_LoopFailuresStayInside ==
  /\ [](slast # "raised")
  /\ [][\A c \in Callers :
          (orchestrator = "foreman_worker" /\ foreman_config = "ok"
             /\ clast'[c] # clast[c] /\ clast'[c] = Raised)
            => (cpc[c] = "poll" /\ ctask[c].state = "failed")]_vars
  /\ []((orchestrator = "foreman_worker" /\ spc = "gather"
           /\ \A i \in 1..gathered : Finished(worker_tasks[i]))
          => ENABLED ShutdownStep)

\* a worker loop ended with the exception of its session initialization; both
\* messages were answered and shutdown completed
C11_Witness ==
  /\ \E i \in WorkerIxs : worker_tasks[i].pc = "failed"
  /\ msgCount = 2
  /\ \A c \in Callers : clast[c].kind = "returned"
  /\ slast = "closed"

\* the loop tasks of either orchestrator
LoopTasks ==
  IF orchestrator = "foreman_worker" THEN worker_tasks ELSE observer_tasks

\* C12: the step in which a call finds that its delegate failed ends the call
\* with an error and changes nothing of the orchestrator (the flag, the
\* coordinator session, the loop tasks); a message that starts on an
\* initialized orchestrator with a coordinator session, whatever failed
\* before, goes to the delegate on that session without a new initialization
C12_DelegateFailureRaises ==
  /\ [][\A c \in Callers :
          (cpc[c] = "poll" /\ ctask[c].state = "failed" /\ cpc'[c] # "poll")
            => /\ clast'[c] = Raised
               /\ cpc'[c] = "idle"
               /\ orchVars' = orchVars
               /\ CoordinatorSession' = CoordinatorSession
               /\ LoopTasks' = LoopTasks]_vars
  /\ [][(msgCount' # msgCount /\ initialized
           /\ CoordinatorSession # NoSession)
          => /\ \E c \in Callers :
                  /\ cpc[c] = "idle"
                  /\ cpc'[c] = "poll"
                  /\ ctask'[c].state = "running"
                  /\ ctask'[c].session = CoordinatorSession
             /\ orchVars' = orchVars
             /\ CoordinatorSession' = CoordinatorSession
             /\ LoopTasks' = LoopTasks]_vars

\* one call was refused with its delegate's error, and the other message is
\* with the delegate on the one session ever constructed
C12_Witness ==
  /\ orchestrator = "foreman_worker"
  /\ msgCount = 2
  /\ Len(sessions) = 1
  /\ initialized
  /\ \E c \in Callers :
       /\ clast[c] = Raised
       /\ cpc[c] = "idle"
       /\ \E d \in Callers \ {c} :
            /\ cpc[d] = "poll"
            /\ ctask[d].state = "running"
            /\ ctask[d].session = foreman_session

\* C13: an observer whose fingerprint equals its baseline starts no review,
\* creates no task and keeps its baseline; a review starts only on a
\* fingerprint that differs from the baseline, and a review that succeeds
\* makes that fingerprint the baseline: over passes with no change of the
\* files in between, the review that set the baseline is the only one
C13_NoReviewWithoutChange ==
  [][\A i \in ObserverIxs :
       LET w == observer_loops[i]
           v == observer_loops'[i]
       IN /\ (w.pc # "review" /\ ~StatRaises
                /\ get_work_state = w.last_review_state)
               => /\ v.pc # "review"
                  /\ v.last_review_state = w.last_review_state
                  /\ tasks' = tasks
          /\ (w.pc # "review" /\ v.pc = "review")
               => /\ ~StatRaises
                  /\ get_work_state # w.last_review_state
                  /\ v.current_state = get_work_state
          /\ v.last_review_state # w.last_review_state
               => /\ w.pc = "review"
                  /\ v.last_pass = "reviewed"
                  /\ v.last_review_state = w.current_state]_vars

\* after a successful review an observer made a pass over the same files and
\* skipped the review
C13_Witness ==
  \E i \in ObserverIxs :
    /\ observer_loops[i].last_pass = "skipped"
    /\ observer_loops[i].last_review_state # NoState
    /\ observer_loops[i].last_review_state = get_work_state
    /\ ~StatRaises
    /\ ~shutdown_event

\* every set of files there can be under the watched paths, and every
\* fingerprint _get_work_state can return
WorkStates ==
  {S \in SUBSET Files : \A f, g \in S : f.path = g.path => f = g}

Fingerprints == {SortedParts(S) : S \in WorkStates}

\* the baseline of the observer loop in slot i
BaselineOf(i) ==
  IF i \in ObserverIxs THEN observer_loops[i].last_review_state ELSE NoState

\* the files have fingerprint f, which observer i has not reviewed
Unreviewed(i, f) ==
  /\ i \in ObserverIxs
  /\ ~shutdown_event
  /\ ~StatRaises
  /\ get_work_state = f
  /\ BaselineOf(i) # f

\* observer i has reviewed fingerprint f, or the files changed again or
\* cannot be read, or shutdown was signaled
Settled(i, f) ==
  \/ BaselineOf(i) = f
  \/ get_work_state # f
  \/ StatRaises
  \/ shutdown_event

\* C14, as stated: whenever the files have a fingerprint an observer has not
\* reviewed, the empty one of a watched set without files included, that
\* observer eventually completes a review of it, unless the files change
\* again, cannot be read, or shutdown is signaled
C14_EveryChangeReviewed ==
  \A i \in ReviewSlots : \A f \in Fingerprints :
    Unreviewed(i, f) ~> Settled(i, f)

\* C14, amended: the same for every fingerprint of a watched set that holds
\* at least one file
C14_NonEmptyChangeReviewed ==
  \A i \in ReviewSlots : \A f \in Fingerprints \ {NoState} :
    Unreviewed(i, f) ~> Settled(i, f)

\* files were created until the watched set held two, and an observer has
\* completed a review of that state
C14_Witness ==
  \E i \in ObserverIxs :
    /\ observer_loops[i].last_pass = "reviewed"
    /\ observer_loops[i].last_review_state = get_work_state
    /\ Len(get_work_state) = 2
    /\ ~shutdown_event

\* C15: a pass of an observer loop in which a stat() raises ends in the
\* loop's wait, not in a review and not in the end of the loop, and leaves
\* the baseline as it was; the first pass after it that can read the files
\* reviews exactly when their fingerprint is not empty and differs from that
\* baseline; an observer loop ends only once shutdown was signaled
C15_FingerprintFailureKeepsBaseline ==
  /\ [][\A i \in ObserverIxs :
          LET w == observer_loops[i]
              v == observer_loops'[i]
          IN /\ (w.pc \in {"init", "wait"} /\ StatRaises /\ ~shutdown_event
                   /\ v # w)
                  => /\ v.pc = "wait"
                     /\ v.last_pass = "fingerprint_raised"
                     /\ v.last_review_state = w.last_review_state
                     /\ v.current_state = w.current_state
             /\ (w.pc = "wait" /\ w.last_pass = "fingerprint_raised"
                   /\ ~StatRaises /\ ~shutdown_event /\ v # w)
                  => (v.pc = "review"
                        <=> (get_work_state # NoState
                               /\ get_work_state # w.last_review_state))]_vars
  /\ [](\A i \in ObserverIxs :
          observer_loops[i].pc = "done" => shutdown_event)

\* an observer that had reviewed the files made a pass in which stat()
\* raised, and waits for its next pass with the reviewed fingerprint as its
\* baseline
C15_Witness ==
  \E i \in ObserverIxs :
    /\ observer_loops[i].pc = "wait"
    /\ observer_loops[i].last_pass = "fingerprint_raised"
    /\ observer_loops[i].last_review_state # NoState
    /\ StatRaises
    /\ ~shutdown_event

\* C16: a worker that starts a cycle holds no task: whatever it claimed in
\* an earlier cycle and did not complete, block or hand to the user, because
\* the delegate failed or just answered, is open again without an assignee
C16_UnfinishedTaskReleased ==
  \A i \in WorkerIxs :
    (worker_tasks[i].pc = "execute" /\ worker_tasks[i].phase = "list")
      => \A t \in TaskIds : ~HeldBy(t, WorkerId(worker_tasks[i]))

\* C17: once a shutdown call that arrived while worker loops were inside a
\* cycle has completed, no task is in_progress in the name of a worker loop
\* that has ended
C17_NoTaskHeldAfterShutdown ==
  slast = "closed"
    => \A t \in TaskIds : \A i \in WorkerIxs :
         Finished(worker_tasks[i])
           => ~HeldBy(t, WorkerId(worker_tasks[i]))

\* C18: an execute_user_message call that starts once shutdown was signaled
\* ends at once with an error: no session is constructed, no worker or
\* observer loop is spawned, no delegate is started
C18_RejectedAfterShutdown ==
  [][(shutdown_event /\ msgCount' # msgCount)
       => /\ \E c \in Callers :
               /\ cpc[c] = "idle"
               /\ cpc'[c] = "idle"
               /\ clast'[c] = Raised
          /\ sessions' = sessions
          /\ worker_tasks' = worker_tasks
          /\ observer_loops' = observer_loops
          /\ ctask' = ctask]_vars

\* C19: for a worker that holds the task it works on, request_user_input
\* with a reason is not refused and gives the task the status
\* pending_user_input with that reason as its blocking notes; a task becomes
\* pending_user_input only so; and the coordinator's unblock of such a task
\* makes it open with the blocking notes cleared and the info recorded
C19_UserInputRoundTrip ==
  /\ [](\A i \in WorkerIxs :
          LET w == worker_tasks[i]
          IN (w.pc = "execute" /\ w.phase = "work"
                /\ HeldBy(w.target, WorkerId(w)))
               => AfterWorkerOp(w.target, WorkerId(w), "request_user_input")
                    = [tasks[w.target] EXCEPT !.status = "pending_user_input",
                                              !.notes = "reason"])
  /\ [][\A t \in TaskIds :
          /\ (tasks[t].status # "pending_user_input"
                /\ tasks'[t].status = "pending_user_input")
               => /\ tasks[t].status = "in_progress"
                  /\ tasks'[t].notes = "reason"
                  /\ \E i \in WorkerIxs :
                       /\ worker_tasks[i].target = t
                       /\ HeldBy(t, WorkerId(worker_tasks[i]))
          /\ (tasks[t].status = "pending_user_input"
                /\ tasks'[t].status = "open")
               => /\ tasks'[t].notes = "none"
                  /\ tasks'[t].info = "info"]_vars

\* a task went to the user and came back: it is open again, its notes are
\* cleared and the user's info is recorded; another is waiting for the user
\* with the worker's reason
C19_Witness ==
  \E t, u \in TaskIds :
    /\ tasks[t].status = "open"
    /\ tasks[t].notes = "none"
    /\ tasks[t].info = "info"
    /\ tasks[u].status = "pending_user_input"
    /\ tasks[u].notes = "reason"

\* C20: on a closed task every operation is refused and would change
\* nothing: claim, the holder's release, request_user_input, block and
\* complete by any worker, the coordinator's unblock and close; a worker
\* whose claim meets a closed task gets the refusal; and no step changes a
\* closed task, so it stays closed
C20_ClosedIsTerminal ==
  /\ [](\A t \in TaskIds :
          tasks[t].status = "closed"
            => /\ ~ClaimSucceeds(t)
               /\ ~CanUnblock(t)
               /\ ~CanClose(t)
               /\ \A i \in WorkerIxs : \A op \in WorkerOps :
                    AfterWorkerOp(t, WorkerId(worker_tasks[i]), op) = tasks[t])
  /\ [][\A i \in WorkerIxs :
          LET w == worker_tasks[i]
          IN (w.pc = "execute" /\ w.phase = "claim"
                /\ tasks[w.target].status = "closed"
                /\ worker_tasks'[i] # w)
               => worker_tasks'[i].phase \in {"conflict", "none"}]_vars
  /\ [][\A t \in TaskIds :
          tasks[t].status = "closed" => tasks'[t] = tasks[t]]_vars

\* a worker tried to claim a task the coordinator had closed and was
\* refused; another worker's task was closed under it
C20_Witness ==
  /\ \E i \in WorkerIxs :
       /\ worker_tasks[i].phase = "conflict"
       /\ tasks[worker_tasks[i].target].status = "closed"
  /\ \E i \in WorkerIxs :
       /\ worker_tasks[i].phase = "work"
       /\ tasks[worker_tasks[i].target].status = "closed"

\* C21: unblock is refused on every task that is neither pending_user_input
\* nor blocked, an open one included; what unblock does (the status back to
\* open from a status the holder cannot leave by release, the info recorded)
\* happens only to a task that was pending_user_input or blocked, and an
\* open task changes only by being claimed or closed
C21_UnblockNeedsBlockedTask ==
  /\ [](\A t \in TaskIds :
          tasks[t].status \notin {"pending_user_input", "blocked"}
            => ~CanUnblock(t))
  /\ [][\A t \in TaskIds :
          /\ tasks'[t].info # tasks[t].info
               => tasks[t].status \in {"pending_user_input", "blocked"}
          /\ (tasks'[t].status = "open" /\ tasks[t].status # "open")
               => \/ tasks[t].status \in {"pending_user_input", "blocked"}
                  \/ /\ tasks[t].status = "in_progress"
                     /\ tasks'[t].assignee = NoActor
          /\ (tasks[t].status = "open" /\ tasks'[t] # tasks[t])
               => tasks'[t].status \in {"in_progress", "closed"}]_vars

\* the coordinator's delegate runs and has unblocked a task, which is open
\* now: one more unblock of it would meet an open task
C21_Witness ==
  /\ \E c \in Callers : ctask[c].state = "running"
  /\ \E t \in TaskIds :
       /\ tasks[t].status = "open"
       /\ tasks[t].info = "info"
       /\ ~CanUnblock(t)

\* C22: the delegate of one review creates at most MaxIssuesPerReview issues
C22_AtMostKIssuesPerReview ==
  \A i \in ObserverIxs : observer_loops[i].created <= MaxIssuesPerReview

\* a worker loop of the category of task t has been started
HasWorkerFor(t) ==
  \E i \in WorkerIxs :
    worker_category(worker_tasks[i].name) = tasks[t].category

RECURSIVE InstanceCount(_, _)
\* _start_workers: the number of loops its two nested loops spawn, the sum of
\* the configured counts
InstanceCount(cfgs, k) ==
  IF k > Len(cfgs) THEN 0 ELSE cfgs[k].count + InstanceCount(cfgs, k + 1)

\* the calls made so far came one after another: a single caller made them
OneAtATime == \E c \in Callers : cpc[c] = "idle" /\ clast[c] = NoOutcome

\* C24: whenever the orchestrator is initialized after a sequence of
\* execute_user_message and shutdown calls made one after another,
\* worker_tasks holds exactly one loop task per configured instance: as many
\* as the configured counts add up to, with pairwise distinct worker ids
C24_OneLoopPerInstance ==
  (orchestrator = "foreman_worker" /\ initialized /\ OneAtATime)
    => /\ Len(worker_tasks) = InstanceCount(worker_configs, 1)
       /\ \A i, j \in WorkerIxs :
            WorkerId(worker_tasks[i]) = WorkerId(worker_tasks[j]) => i = j


\* ------------------------------------------------- claims, WorkflowSpec

\* execute_task was entered for the task
Started(run) == run.pc # "pending"

\* C25: phases run in list order: a task has started only if every task of
\* every earlier phase has returned, whether that phase is sequential or
\* parallel; in a sequential phase a task has started only if the task
\* before it has returned
C25_PhasesInListOrder ==
  /\ \A p \in PhaseIxs : \A q \in PhaseIxs :
       (p < q /\ \E u \in TaskIxs(q) : Started(runs[q][u]))
         => \A t \in TaskIxs(p) : Returned(runs[p][t])
  /\ \A p \in PhaseIxs : \A t \in TaskIxs(p) :
       (/\ workflow.phases[p].execution_mode = "sequential"
        /\ t > 1
        /\ Started(runs[p][t]))
         => Returned(runs[p][t - 1])

\* after a parallel phase whose tasks ran side by side on one session, the
\* second task of the sequential phase has started
C25_Witness ==
  /\ orchestrator = "multi_context"
  /\ wpc = 2
  /\ workflow.phases[1].execution_mode = "parallel"
  /\ \A t \in TaskIxs(1) : runs[1][t].pc = "success"
  /\ workflow.phases[2].execution_mode = "sequential"
  /\ Started(runs[2][2])


\* -------------------------------------------------- claims, ContextSpec

\* the last k messages of a log, all of it when it has fewer
MostRecent(log, k) ==
  SubSeq(log, (IF Len(log) > k THEN Len(log) - k ELSE 0) + 1, Len(log))

\* C26: for every max_history >= 0, after any add_message and clear_history
\* calls, the history of a context holds at most max_history messages, and
\* they are the most recently added ones in the order they were added
C26_HistoryWithinLimit ==
  \A n \in DOMAIN contexts :
    /\ Len(contexts[n].history) <= contexts[n].max_history
    /\ contexts[n].history = MostRecent(added[n], contexts[n].max_history)


\* ---------------------------------------------- claims, QueueSpec (cont.)

\* C27: every open task has no assignee, whatever transitions brought it
\* there, so that the precondition of claim holds for every open task
C27_OpenTaskUnassigned ==
  \A t \in TaskIds :
    tasks[t].status = "open"
      => tasks[t].assignee = NoActor /\ CanClaim(t)


\* ---------------------------------------------------- claims, Spec (cont.)

\* C28: with calls of execute_user_message overlapping on an orchestrator
\* that was not initialized (a mount plan that works, no shutdown so far),
\* one coordinator session is constructed and entered once, and every
\* configured worker or observer loop is spawned once
C28_ConcurrentCallsInitializeOnce ==
  (~shutdown_event /\ CoordinatorConfig = "ok")
    => /\ Len(sessions) <= 1
       /\ \A k \in SessionIds : sessions[k].entered <= 1
       /\ Len(worker_tasks) <= InstanceCount(worker_configs, 1)
       /\ Len(observer_loops) <= Len(observer_configs)
       /\ Len(observer_tasks) <= Len(observer_configs)


\* ------------------------------------------------- claims, InitStopSpec

\* C29: shutdown was called while the first message's initialization was in
\* progress; once that shutdown call and the initialization have both
\* finished, no worker loop is running and the coordinator session has been
\* released
C29_ShutdownDuringInitStopsAll ==
  (/\ slast # "none"
   /\ spc = "idle"
   /\ msgCount > 0
   /\ ~InitInProgress)
    => /\ \A i \in WorkerIxs : Finished(worker_tasks[i])
       /\ \/ foreman_session = NoSession
          \/ sessions[foreman_session].exited > 0


\* ---------------------------------------------------- claims, Spec (cont.)

\* C30: __aexit__ is not called on a coordinator session while a delegate
\* call that execute_user_message started on it is still running
C30_SessionOutlivesDelegate ==
  \A c \in Callers :
    ctask[c].state = "running"
      => sessions[ctask[c].session].exited = 0


\* a step in which a call of shutdown returns
ShutdownReturns == spc' = "idle" /\ (spc # "idle" \/ slast' # slast)

\* C31: when a shutdown call returns and no initialization is under way,
\* every coordinator session entered so far has been exited, the session of
\* a failed initialization and one replaced by a later initialization
\* included
C31_EnteredSessionsExited ==
  [][(ShutdownReturns /\ ~InitInProgress)
       => \A k \in SessionIds :
            sessions'[k].entered > 0 => sessions'[k].exited > 0]_vars


\* C32: with a coordinator mount plan that AmplifierSession rejects or that
\* mounts no context manager, every call of execute_user_message that has
\* ended raised, the orchestrator is not initialized, no loop was spawned
\* and no delegate was invoked
C32_FailedInitializationRaises ==
  CoordinatorConfig \in {"invalid", "no_context"}
    => /\ ~initialized
       /\ worker_tasks = << >>
       /\ observer_loops = << >>
       /\ \A c \in Callers :
            /\ ctask[c] = NoExec
            /\ cpc[c] \in {"idle", "aenter"}
            /\ (cpc[c] = "idle" /\ clast[c] # NoOutcome) => clast[c] = Raised

\* two messages met a session without a context manager and both raised
C32_Witness ==
  /\ orchestrator = "foreman_worker"
  /\ foreman_config = "no_context"
  /\ InstanceCount(worker_configs, 1) > 0
  /\ msgCount = 2
  /\ \A c \in Callers : cpc[c] = "idle" /\ clast[c] = Raised
  /\ Len(sessions) = 2


\* C33 as stated: a worker loop task has ended only if the shutdown event is
\* set
C33_NoExitBeforeShutdown ==
  \A i \in WorkerIxs : Finished(worker_tasks[i]) => shutdown_event

\* the worker's session could not be set up: the task ends with that
\* exception before its loop starts
SetupFailed(w, v) == w.pc = "init" /\ ~w.ok /\ v.pc = "failed"

\* C33, amended: a worker loop task ends either after the shutdown event was
\* set or, before its loop started, with the exception of its session setup;
\* a task that left its loop did so with the event set
C33_ExitAfterShutdownOrFailedSetup ==
  /\ [][\A i \in WorkerIxs :
          (~Finished(worker_tasks[i]) /\ Finished(worker_tasks'[i]))
            => \/ shutdown_event
               \/ SetupFailed(worker_tasks[i], worker_tasks'[i])]_vars
  /\ [](\A i \in WorkerIxs : worker_tasks[i].pc = "done" => shutdown_event)

\* one worker loop left its loop after shutdown, another ended at its
\* session setup
C33_Witness ==
  /\ shutdown_event
  /\ \E i \in WorkerIxs : worker_tasks[i].pc = "done" /\ worker_tasks[i].ok
  /\ \E i \in WorkerIxs : worker_tasks[i].pc = "failed"


\* a step in which worker loop i calls session.execute, observer loop i
\* starts a review, observer loop i calls session.execute of its review
WorkerInvokes(i) ==
  worker_tasks[i].pc # "execute" /\ worker_tasks'[i].pc = "execute"
ReviewStarts(i) ==
  observer_loops[i].pc # "review" /\ observer_loops'[i].pc = "review"
ReviewInvokes(i) ==
  observer_loops[i].phase # "execute" /\ observer_loops'[i].phase = "execute"

\* C34 as stated: no loop calls session.execute once the shutdown event is
\* set
C34_NoInvocationAfterShutdown ==
  [][/\ \A i \in WorkerIxs : WorkerInvokes(i) => ~shutdown_event
     /\ \A i \in ObserverIxs : ReviewInvokes(i) => ~shutdown_event]_vars

\* C34, amended: once the shutdown event is set no worker loop calls
\* session.execute and no observer loop starts a review; an observer calls
\* session.execute only inside a review it has started, and what runs when
\* the event is set is not interrupted
C34_NoNewCycleAfterShutdown ==
  [][/\ \A i \in WorkerIxs : WorkerInvokes(i) => ~shutdown_event
     /\ \A i \in ObserverIxs :
          /\ ReviewStarts(i) => ~shutdown_event
          /\ ReviewInvokes(i)
               => /\ observer_loops[i].pc = "review"
                  /\ observer_loops[i].phase = "enter"
          /\ (shutdown_event /\ observer_loops[i].pc = "review"
                /\ observer_loops'[i] # observer_loops[i])
               => \/ observer_loops'[i].pc = "review"
                  \/ observer_loops'[i].pc = "wait"]_vars

\* shutdown waits for an observer whose review is inside session.execute
C34_Witness ==
  /\ shutdown_event
  /\ spc = "gather"
  /\ \E i \in ObserverIxs :
       observer_loops[i].pc = "review" /\ observer_loops[i].phase = "execute"


\* a step in which observer loop i completes a review, and one in which it
\* runs its first pass after a completed review
ReviewCompletes(i) ==
  observer_loops[i].pc = "review" /\ observer_loops'[i].last_pass = "reviewed"
PassAfterReview(i) ==
  /\ observer_loops[i].pc = "wait"
  /\ observer_loops[i].last_pass = "reviewed"
  /\ observer_loops'[i] # observer_loops[i]
  /\ ~shutdown_event
  /\ ~StatRaises

\* what C35 says of the baseline: a review keeps the fingerprint taken in the
\* pass that started it, whatever happens to the files meanwhile, and
\* records exactly that fingerprint as the baseline when it completes
ReviewRecordsStartFingerprint(i) ==
  /\ ReviewStarts(i) => observer_loops'[i].current_state = get_work_state
  /\ (observer_loops[i].pc = "review" /\ observer_loops'[i].pc = "review")
       => observer_loops'[i].current_state = observer_loops[i].current_state
  /\ ReviewCompletes(i)
       => observer_loops'[i].last_review_state
            = observer_loops[i].current_state

\* observer loop i completes a review while the files, readable, no longer
\* have the fingerprint the review started from
CompletesAfterChange(i) ==
  /\ ReviewCompletes(i)
  /\ ~StatRaises
  /\ get_work_state # observer_loops[i].current_state

\* the first pass after a completed review starts a review exactly when the
\* loop's test of the files against the baseline holds
NextPassReviewsOnDifference(i) ==
  (PassAfterReview(i) /\ DetectedChanges(observer_loops[i]))
    => /\ observer_loops'[i].pc = "review"
       /\ observer_loops'[i].current_state = get_work_state

\* C35 as stated: the baseline a review records is the fingerprint taken
\* before the review, so that after a review during which the files changed
\* the loop's test for a change holds, and the next pass reviews again
C35_ChangeDuringReviewSeen ==
  [][\A i \in ObserverIxs :
       /\ ReviewRecordsStartFingerprint(i)
       /\ CompletesAfterChange(i) => DetectedChanges(observer_loops'[i])
       /\ NextPassReviewsOnDifference(i)]_vars

\* C35, amended: the same after a review during which the files changed and
\* at least one watched file is left
C35_NonEmptyChangeDuringReviewSeen ==
  [][\A i \in ObserverIxs :
       /\ ReviewRecordsStartFingerprint(i)
       /\ (CompletesAfterChange(i) /\ get_work_state # NoState)
            => DetectedChanges(observer_loops'[i])
       /\ NextPassReviewsOnDifference(i)]_vars

\* a second review runs on files that changed after the first review's
\* fingerprint was taken, and the files have changed again meanwhile
C35_Witness ==
  \E i \in ObserverIxs :
    /\ observer_loops[i].pc = "review"
    /\ observer_loops[i].phase = "execute"
    /\ observer_loops[i].last_review_state # NoState
    /\ observer_loops[i].current_state # observer_loops[i].last_review_state
    /\ get_work_state # NoState
    /\ get_work_state # observer_loops[i].current_state
    /\ ~StatRaises
    /\ ~shutdown_event


\* C36: the sleep of a worker loop after a failed cycle is strictly longer
\* than its sleep after a cycle without failure
C36_BackoffLongerThanPoll ==
  \A i \in WorkerIxs :
    worker_tasks[i].pc = "backoff"
      => SleepSeconds(worker_tasks[i]) > CycleDelay


\* the sessions constructed for a profile, and cleanup has returned
SessionsOf(profile) ==
  {s \in DOMAIN amplifier_sessions : amplifier_sessions[s].profile = profile}
CleanedUp == wpc = Len(workflow.phases) + 2

\* C37: at most one AmplifierSession is constructed per profile, tasks of a
\* parallel phase that use the same profile included; every session whose
\* __aenter__ returned is in the pool until cleanup, and has been exited
\* once cleanup has returned
C37_OneSessionPerProfile ==
  /\ \A profile \in MountPlans : Cardinality(SessionsOf(profile)) <= 1
  /\ \A s \in DOMAIN amplifier_sessions :
       amplifier_sessions[s].entered > 0
         => IF CleanedUp
              THEN amplifier_sessions[s].exited = 1
              ELSE /\ amplifier_sessions[s].profile \in DOMAIN pool
                   /\ pool[amplifier_sessions[s].profile] = s


\* the call of execute_task has ended, with a result or with an exception
Ended(run) == run.pc \in {"success", "failure", "raised"}

\* C38: no call of execute_task ends with an exception: a task without a
\* profile, one whose profile has no mount plan, one whose session's
\* __aenter__ raised and one whose session.execute raised all end with a
\* result of success False and an error text; a phase returns only when
\* every one of its tasks has a result, so a sequential phase runs the tasks
\* after a failed one
C38_TaskFailuresAreResults ==
  /\ \A p \in PhaseIxs : \A t \in TaskIxs(p) :
       LET run == runs[p][t]
           task == workflow.phases[p].tasks[t]
       IN  /\ run.pc # "raised"
           /\ run.pc = "failure" <=> run.error # "none"
           /\ (Started(run) /\ ProfileOf(task) = NoProfile)
                => run.error = "No profile specified for task"
           /\ (Ended(run) /\ run.pc # "failure")
                => run.pc = "success" /\ run.response # "none"
  /\ \A p \in PhaseIxs :
       wpc > p => \A t \in TaskIxs(p) : Returned(runs[p][t])

\* in a sequential phase the first task failed for want of a mount plan and
\* the task after it has succeeded
C38_Witness ==
  \E p \in PhaseIxs :
    /\ workflow.phases[p].execution_mode = "sequential"
    /\ runs[p][1].error = "Mount plan not found"
    /\ runs[p][2].pc = "success"

====
